---- MODULE Spec2Model ----
(***************************************************************************)
(* State-machine model of the request orchestration hooks of               *)
(* react-api-weaver: the TTL cache (core/cache.ts), the polling manager    *)
(* (core/polling.ts), the read engine useApi (base hook and React 19       *)
(* hook), the optimistic mutation hooks (React 18 and React 19) and the    *)
(* form-action hooks.  One hook instance is modelled per behaviour; Init   *)
(* chooses which hook is constructed and with which options.               *)
(*                                                                         *)
(* Time is a discrete clock `now`; timers (setInterval of the polling      *)
(* manager, setTimeout of a retry) fire when the clock reaches their due   *)
(* time, and the clock does not pass a due timer.  An operation call is an *)
(* entry of `inflight` until its promise settles.                          *)
(***************************************************************************)
EXTENDS Integers, Sequences, FiniteSets, TLC

VARIABLES
    cfg,                 \* the options the hook was constructed with
    lifecycle,           \* "constructed" | "mounted" | "unmounted"
    data, loading, error,            \* useState cells of the hook
    mountedRef,          \* mountedRef.current
    retryCountRef,       \* retryCountRef.current
    abortController,     \* abortControllerRef.current
    cleanupRegistered,   \* the last effect run returned a cleanup function
    previousDataRef,     \* previousDataRef.current (React 18 optimistic hook)
    pendingOptimisticValueRef,  \* pendingOptimisticValueRef.current (React 19)
    poll,                \* the PollingManager of the hook
    cacheStore,          \* the process-wide CacheManager map
    inflight,            \* operation calls whose promise has not settled
    retryTimers,         \* pending setTimeout(retry) callbacks, in due order
    now,                 \* Date.now() in clock ticks
    calls,               \* history: number of invocations of the operation
    nOnSuccess, nOnError,            \* history: callback invocations
    curGen,              \* history: number of triggers issued so far
    authGen,             \* history: the latest trigger of the hook itself
    lastOkAt,            \* history: time a cache-enabled read last resolved
                         \* with a value other than null (-1: never)
    onlyFailed,          \* history: every outcome so far was a non-abort failure
    overlapped,          \* history: a mutate was issued while another was pending
    firstAttempt,        \* history: for each outstanding mutate call, the data
                         \* and the input its first attempt started with
    pollHistory,         \* history of a PollingManager driven directly: calls of
                         \* start and stop, the last start, callback invocations
    rejections,          \* history: promises returned by refetch() and
                         \* mutate(input) that rejected
    cacheHistory,        \* history of a CacheManager driven directly: the
                         \* number of calls, the last call and what it returned
    keyCalls,            \* history of generateCacheKey called directly: the
                         \* arguments and the result of each call, in order
    cachedFetch,         \* the functions made by createCachedFetch and called
                         \* directly: their options, their pending operation
                         \* calls, and the history of what they did
    request              \* a makeRequest call: its position, its timeout
                         \* timer, its abort signals and how it settled

vars == <<cfg, lifecycle, data, loading, error, mountedRef, retryCountRef,
          abortController, cleanupRegistered, previousDataRef,
          pendingOptimisticValueRef, poll, cacheStore, inflight, retryTimers,
          now, calls, nOnSuccess, nOnError, curGen, authGen, lastOkAt,
          onlyFailed, overlapped, firstAttempt, pollHistory, rejections,
          cacheHistory, keyCalls, cachedFetch, request>>

-----------------------------------------------------------------------------
(* Bounds of the model *)

MaxTriggers == 2
MaxRetry == 1
Ttl == 1
MaxCalls == MaxTriggers + MaxRetry
MaxTime == Ttl + 1
PollInterval == Ttl

(* Program constants, in clock ticks of 1000 ms *)

RetryDelay == 1
DefaultTtl == 300

-----------------------------------------------------------------------------
(* Values.  A value is a sequence of strings: null, undefined, a server    *)
(* result, or an optimistic value built from a previous value.             *)

Null == <<"null">>
Undefined == <<"undefined">>
\* The value the operation resolves with is null or a value that names the
\* trigger it answers, so that the results of different triggers differ.
ServerValue(gen) == <<"server", ToString(gen)>>
Results(gen) == {Null, ServerValue(gen)}

NoError == "none"
AbortMessage == "Request was aborted"
OtherMessage == "Persistent error"
Errors == {AbortMessage, OtherMessage}

Inputs == {"a", "b"}

OpName == "op"
CustomKey == "shared-key"

NoParams == [defined |-> FALSE, fields |-> <<>>]
EmptyParams == [defined |-> TRUE, fields |-> <<>>]

-----------------------------------------------------------------------------
(* core/cache.ts *)

RECURSIVE JsonFields(_)
JsonFields(fs) ==
    IF fs = <<>> THEN ""
    ELSE "\"" \o fs[1][1] \o "\":" \o fs[1][2]
         \o (IF Len(fs) > 1 THEN "," ELSE "") \o JsonFields(Tail(fs))

\* JSON.stringify leaves out the properties whose value is undefined.
UndefinedText == "undefined"

JsonStringify(p) ==
    "{" \o JsonFields(SelectSeq(p.fields, LAMBDA f : f[2] # UndefinedText))
        \o "}"

generateCacheKey_OverrideOnlyWithoutParams(url, params, customKey) ==
    IF customKey # "" /\ ~params.defined THEN customKey
    ELSE url \o ":" \o (IF params.defined THEN JsonStringify(params) ELSE "")

generateCacheKey(url, params, customKey) ==
    IF customKey # "" THEN customKey
    ELSE url \o ":" \o (IF params.defined THEN JsonStringify(params) ELSE "")

NoEntry == [present |-> FALSE, data |-> Null, timestamp |-> 0, ttl |-> 0]

\* The operations wrapped by createCachedFetch and the params they are
\* called with
FetchOps == {OpName, "op2"}
FetchParams == {NoParams, [defined |-> TRUE, fields |-> <<<<"a", "1">>>>]}

CacheKeys ==
    {"", CustomKey,
     generateCacheKey(OpName, EmptyParams, ""),
     generateCacheKey(OpName, NoParams, "")}
    \cup {generateCacheKey(f, ps, "") : f \in FetchOps, ps \in FetchParams}

IsExpired_AtTtl(entry, t) == t - entry.timestamp >= entry.ttl

IsExpired(entry, t) == t - entry.timestamp > entry.ttl

CacheSet_KeepsTtl(store, key, value, ttl, t) ==
    [store EXCEPT ![key] =
        [present |-> TRUE, data |-> value, timestamp |-> t,
         ttl |-> IF store[key].present THEN store[key].ttl ELSE ttl]]

CacheSet(store, key, value, ttl, t) ==
    [store EXCEPT ![key] =
        [present |-> TRUE, data |-> value, timestamp |-> t, ttl |-> ttl]]

CacheGet(store, key, t) ==
    IF ~store[key].present THEN Null
    ELSE IF IsExpired(store[key], t) THEN Null
    ELSE store[key].data

CacheAfterGet(store, key, t) ==
    IF store[key].present /\ IsExpired(store[key], t)
    THEN [store EXCEPT ![key] = NoEntry]
    ELSE store

CacheDelete(store, key) == [store EXCEPT ![key] = NoEntry]

CacheHas(store, key, t) == CacheGet(store, key, t) # Null

CacheClear(store) == [k \in DOMAIN store |-> NoEntry]

CacheSize(store) == Cardinality({k \in DOMAIN store : store[k].present})

-----------------------------------------------------------------------------
(* core/polling.ts *)

NoPolling == [isRunning |-> FALSE, intervalId |-> 0, timers |-> {}]

FreshTimerId(p) ==
    CHOOSE i \in 1..(Cardinality(p.timers) + 1) :
        \A t \in p.timers : t.id # i

PollStop_KeepsTimer(p) ==
    [p EXCEPT !.isRunning = FALSE]

PollStop_KeepsRunning(p) ==
    [isRunning |-> p.isRunning,
     intervalId |-> 0,
     timers |-> IF p.intervalId # 0
                THEN {t \in p.timers : t.id # p.intervalId}
                ELSE p.timers]

PollStop(p) ==
    [isRunning |-> FALSE,
     intervalId |-> 0,
     timers |-> IF p.intervalId # 0
                THEN {t \in p.timers : t.id # p.intervalId}
                ELSE p.timers]

PollStart_FiresAtStart(p, callback, interval, t) ==
    LET q == IF p.isRunning THEN PollStop(p) ELSE p
        id == FreshTimerId(q)
    IN  [isRunning |-> TRUE,
         intervalId |-> id,
         timers |-> q.timers \cup
                    {[id |-> id, next |-> t, interval |-> interval,
                      callback |-> callback]}]

PollStart_KeepsOldTimer(p, callback, interval, t) ==
    LET id == FreshTimerId(p)
    IN  [isRunning |-> TRUE,
         intervalId |-> id,
         timers |-> p.timers \cup
                    {[id |-> id, next |-> t + interval, interval |-> interval,
                      callback |-> callback]}]

PollStart(p, callback, interval, t) ==
    LET q == IF p.isRunning THEN PollStop(p) ELSE p
        id == FreshTimerId(q)
    IN  [isRunning |-> TRUE,
         intervalId |-> id,
         timers |-> q.timers \cup
                    {[id |-> id, next |-> t + interval, interval |-> interval,
                      callback |-> callback]}]

PollIsActive(p) == p.isRunning

-----------------------------------------------------------------------------
(* Options *)

RetryConfigs ==
    {[isNumber |-> TRUE, n |-> k, b |-> FALSE] : k \in 0..MaxRetry}
    \cup {[isNumber |-> FALSE, n |-> 0, b |-> TRUE]}

\* retry: true and retry: false
BooleanRetryConfigs ==
    {[isNumber |-> FALSE, n |-> 0, b |-> v] : v \in BOOLEAN}

CacheOff == [on |-> FALSE, ttl |-> 0, key |-> ""]
CacheTrue == [on |-> TRUE, ttl |-> 0, key |-> ""]
CacheConfigs == {CacheOff, CacheTrue, [on |-> TRUE, ttl |-> Ttl, key |-> CustomKey]}

ReadConfigs ==
    [kind : {"read"}, variant : {"base", "r19"}, enabled : BOOLEAN,
     retry : RetryConfigs, cache : CacheConfigs, polling : {0, PollInterval},
     hasOptimistic : {FALSE}, rollbackOnError : {TRUE}]

BooleanRetryReadConfigs ==
    [kind : {"read"}, variant : {"base", "r19"}, enabled : BOOLEAN,
     retry : BooleanRetryConfigs, cache : {CacheOff},
     polling : {0, PollInterval},
     hasOptimistic : {FALSE}, rollbackOnError : {TRUE}]

EffectiveTtl(c) == IF c.ttl # 0 THEN c.ttl ELSE DefaultTtl

Truthy(v) == v # Null /\ v # Undefined

-----------------------------------------------------------------------------
(* Retry policy: the catch block shared by every hook *)

ShouldRetry_OffByOne(retry, count) ==
    IF retry.isNumber THEN count <= retry.n ELSE retry.b

ShouldRetry_TrueIsOnce(retry, count) ==
    IF retry.isNumber THEN count < retry.n ELSE retry.b /\ count < 1

ShouldRetry(retry, count) ==
    IF retry.isNumber THEN count < retry.n ELSE retry.b

RetryDecision_IgnoreAbort(retry, count, message) ==
    ShouldRetry(retry, count)

RetryDecision(retry, count, message) ==
    ShouldRetry(retry, count) /\ message # AbortMessage

-----------------------------------------------------------------------------
(* Records *)

NoController == [exists |-> FALSE, owner |-> 0, aborted |-> FALSE]

\* An operation call in flight.  gen is the trigger it answers (a retry
\* answers the trigger of the call it retries); at most one call per trigger
\* is in flight, so gen identifies the call.  seq orders the calls by the
\* time they started.
Attempt(gen, kind, useCache, input, cdata) ==
    [gen |-> gen, kind |-> kind, useCache |-> useCache, aborted |-> FALSE,
     input |-> input, cdata |-> cdata, seq |-> calls + 1]

RetryTimer_FreshData(a, message) ==
    [due |-> now + RetryDelay, gen |-> a.gen, input |-> a.input,
     cdata |-> data, cause |-> message]

RetryTimer(a, message) ==
    [due |-> now + RetryDelay, gen |-> a.gen, input |-> a.input,
     cdata |-> a.cdata, cause |-> message]

\* The history of first attempts keeps the entries of the mutate calls that
\* still have a call in flight or a retry scheduled.
NoFirstAttempt == [cdata |-> Null, input |-> ""]

LiveFirstAttempts(history, fl, timers) ==
    [g \in DOMAIN history |->
        IF \/ \E a \in fl : a.gen = g
           \/ \E i \in DOMAIN timers : timers[i].gen = g
        THEN history[g]
        ELSE NoFirstAttempt]

\* The promise of an async function whose awaited call threw: it rejects
\* unless the await is inside a try block whose catch returns.
PromiseOutcome_Rethrows(threw, inTry) ==
    IF threw THEN "rejected" ELSE "resolved"

PromiseOutcome(threw, inTry) ==
    IF threw /\ ~inTry THEN "rejected" ELSE "resolved"

\* executeRequest and mutate await the operation inside try/catch.
AwaitInTry == TRUE

\* The calls whose promise the caller of refetch()/mutate(input) holds
TriggerKinds == {"refetch", "mutate"}

RejectionsAfter(a, threw) ==
    IF a.kind \in TriggerKinds /\ PromiseOutcome(threw, AwaitInTry) = "rejected"
    THEN rejections + 1
    ELSE rejections

NoRequest ==
    [n |-> 0, phase |-> "none", hasSignal |-> FALSE,
     externalAborted |-> FALSE, internalAborted |-> FALSE,
     combinedAborted |-> FALSE, timerArmed |-> FALSE, due |-> 0,
     response |-> "none", abortedBeforeResponse |-> FALSE, message |-> ""]

NoFetchCall == [op |-> "none", fn |-> "", key |-> "", value |-> Null]

NoCachedFetch ==
    [fns |-> [f \in FetchOps |-> [created |-> FALSE, key |-> "", ttl |-> 0]],
     pending |-> {},
     invoked |-> [f \in FetchOps |-> 0],
     ops |-> 0,
     invalidated |-> {},
     last |-> NoFetchCall]

NoCacheHistory ==
    [ops |-> 0, op |-> "none", key |-> "", value |-> Null, ttl |-> 0,
     flag |-> FALSE, count |-> 0, replaced |-> NoEntry]

\* History of the modules driven directly
directVars == <<cacheHistory, keyCalls, cachedFetch, request>>

optVars == <<previousDataRef, pendingOptimisticValueRef, overlapped,
             firstAttempt>>

NoPollHistory ==
    [starts |-> 0, stops |-> 0, since |-> 0, interval |-> 0, callback |-> "",
     count |-> 0, invoked |-> "", handler |-> "none"]

TimerDue == \/ \E t \in poll.timers : t.next <= now
            \/ (retryTimers # <<>> /\ retryTimers[1].due <= now)

-----------------------------------------------------------------------------
(* The read engine: useApi (base hook) and useApi (React 19 hook) *)

RequestKey(useCache) ==
    IF cfg.variant = "base"
    THEN IF cfg.cache.on /\ useCache
         THEN generateCacheKey(OpName, EmptyParams, cfg.cache.key)
         ELSE ""
    ELSE generateCacheKey(OpName, NoParams, cfg.cache.key)

CacheHit(cached) ==
    IF cfg.variant = "base" THEN Truthy(cached) ELSE cached # Null

\* executeRequest(useCache) up to its first suspension: either the cache
\* answers and the call completes, or the operation is invoked and the call
\* waits in `inflight`.  store, fl and mounted are the cache, the in-flight
\* set and mountedRef.current as left by the caller's earlier statements.
ExecuteRequest(useCache, kind, gen, store, fl, mounted) ==
    LET consult == cfg.cache.on /\ useCache
        key == RequestKey(useCache)
        cached == IF consult THEN CacheGet(store, key, now) ELSE Null
        hit == consult /\ CacheHit(cached)
    IN  /\ abortController' = [exists |-> TRUE, owner |-> gen, aborted |-> FALSE]
        /\ error' = NoError
        /\ cacheStore' = IF consult THEN CacheAfterGet(store, key, now) ELSE store
        /\ IF hit
           THEN /\ inflight' = fl
                /\ calls' = calls
                /\ IF cfg.variant = "base"
                   THEN /\ data' = cached
                        /\ loading' = FALSE
                        /\ nOnSuccess' = nOnSuccess + 1
                        /\ retryCountRef' = retryCountRef
                   ELSE IF mounted
                   THEN /\ data' = cached
                        /\ loading' = FALSE
                        /\ nOnSuccess' = nOnSuccess + 1
                        /\ retryCountRef' = 0
                   ELSE /\ loading' = TRUE
                        /\ UNCHANGED <<data, nOnSuccess, retryCountRef>>
           ELSE /\ inflight' = fl \cup {Attempt(gen, kind, consult, "", Null)}
                /\ calls' = calls + 1
                /\ loading' = TRUE
                /\ UNCHANGED <<data, nOnSuccess, retryCountRef>>
        /\ onlyFailed' = (onlyFailed /\ ~hit)

MarkAborted(fl, ctl) ==
    {IF ctl.exists /\ a.gen = ctl.owner /\ a.kind # "cf"
     THEN [a EXCEPT !.aborted = TRUE] ELSE a : a \in fl}

AbortedController(ctl) ==
    IF ctl.exists THEN [ctl EXCEPT !.aborted = TRUE] ELSE ctl

CanTrigger == curGen < MaxTriggers /\ calls < MaxCalls

\* The body of the effect, run after the cleanup (if any) of the previous run
\* left the polling manager as p, the controller as ctl and the in-flight
\* set as fl.
EffectBody_RunsWhenDisabled(enabled, p, ctl, fl) ==
    /\ mountedRef' = TRUE
    /\ IF enabled \/ ~enabled
       THEN /\ CanTrigger
            /\ ExecuteRequest(TRUE, "initial", curGen + 1, cacheStore, fl, TRUE)
            /\ curGen' = curGen + 1
            /\ authGen' = curGen + 1
            /\ poll' = IF cfg.polling > 0
                       THEN PollStart(p, "executeRequest", cfg.polling, now)
                       ELSE p
            /\ cleanupRegistered' = TRUE
       ELSE /\ poll' = p
            /\ abortController' = ctl
            /\ inflight' = fl
            /\ cleanupRegistered' = FALSE
            /\ UNCHANGED <<data, loading, error, retryCountRef, cacheStore,
                           calls, nOnSuccess, curGen, authGen, onlyFailed>>

EffectBody(enabled, p, ctl, fl) ==
    /\ mountedRef' = TRUE
    /\ IF enabled
       THEN /\ CanTrigger
            /\ ExecuteRequest(TRUE, "initial", curGen + 1, cacheStore, fl, TRUE)
            /\ curGen' = curGen + 1
            /\ authGen' = curGen + 1
            /\ poll' = IF cfg.polling > 0
                       THEN PollStart(p, "executeRequest", cfg.polling, now)
                       ELSE p
            /\ cleanupRegistered' = TRUE
       ELSE /\ poll' = p
            /\ abortController' = ctl
            /\ inflight' = fl
            /\ cleanupRegistered' = FALSE
            /\ UNCHANGED <<data, loading, error, retryCountRef, cacheStore,
                           calls, nOnSuccess, curGen, authGen, onlyFailed>>

Mount ==
    /\ cfg.kind = "read"
    /\ lifecycle = "constructed"
    /\ lifecycle' = "mounted"
    /\ EffectBody(cfg.enabled, poll, abortController, inflight)
    /\ UNCHANGED <<cfg, retryTimers, now, nOnError, lastOkAt>>
    /\ UNCHANGED optVars
    /\ UNCHANGED pollHistory
    /\ UNCHANGED rejections
    /\ UNCHANGED directVars

\* A render with `enabled` changed to false: the previous effect's cleanup
\* (mountedRef.current = false; abort()) runs, then the effect body, which
\* sets mountedRef.current and returns early.
Disable ==
    /\ cfg.kind = "read"
    /\ lifecycle = "mounted"
    /\ cfg.enabled
    /\ cfg' = [cfg EXCEPT !.enabled = FALSE]
    /\ IF cleanupRegistered
       THEN EffectBody(FALSE, PollStop(poll),
                       AbortedController(abortController),
                       MarkAborted(inflight, abortController))
       ELSE EffectBody(FALSE, poll, abortController, inflight)
    /\ UNCHANGED <<lifecycle, retryTimers, now, nOnError, lastOkAt>>
    /\ UNCHANGED optVars
    /\ UNCHANGED pollHistory
    /\ UNCHANGED rejections
    /\ UNCHANGED directVars

Refetch ==
    /\ cfg.kind = "read"
    /\ lifecycle = "mounted"
    /\ CanTrigger
    /\ ExecuteRequest(FALSE, "refetch", curGen + 1,
                      IF cfg.variant = "r19"
                      THEN CacheDelete(cacheStore,
                               generateCacheKey(OpName, EmptyParams, ""))
                      ELSE cacheStore,
                      inflight, mountedRef)
    /\ curGen' = curGen + 1
    /\ authGen' = curGen + 1
    /\ UNCHANGED <<cfg, lifecycle, mountedRef, cleanupRegistered, poll,
                   retryTimers, now, nOnError, lastOkAt>>
    /\ UNCHANGED optVars
    /\ UNCHANGED pollHistory
    /\ UNCHANGED rejections
    /\ UNCHANGED directVars

PollTick ==
    /\ cfg.kind = "read"
    /\ \E t \in poll.timers :
         /\ t.next = now
         /\ CanTrigger
         /\ ExecuteRequest(TRUE, "poll", curGen + 1, cacheStore, inflight,
                           mountedRef)
         /\ curGen' = curGen + 1
         /\ authGen' = curGen + 1
         /\ poll' = [poll EXCEPT !.timers =
                        (poll.timers \ {t}) \cup
                        {[t EXCEPT !.next = now + t.interval]}]
    /\ UNCHANGED <<cfg, lifecycle, mountedRef, cleanupRegistered,
                   retryTimers, now, nOnError, lastOkAt>>
    /\ UNCHANGED optVars
    /\ UNCHANGED pollHistory
    /\ UNCHANGED rejections
    /\ UNCHANGED directVars

RetryFire ==
    /\ cfg.kind = "read"
    /\ retryTimers # <<>>
    /\ retryTimers[1].due <= now
    /\ calls < MaxCalls
    /\ ExecuteRequest(FALSE, "retry", retryTimers[1].gen, cacheStore, inflight,
                      mountedRef)
    /\ retryTimers' = Tail(retryTimers)
    /\ UNCHANGED <<cfg, lifecycle, mountedRef, cleanupRegistered, poll,
                   now, nOnError, curGen, authGen, lastOkAt>>
    /\ UNCHANGED optVars
    /\ UNCHANGED pollHistory
    /\ UNCHANGED rejections
    /\ UNCHANGED directVars

\* abort(): aborts the current controller, which no operation call was given,
\* and stops the polling manager.
Abort ==
    /\ cfg.kind = "read"
    /\ lifecycle = "mounted"
    /\ abortController' = AbortedController(abortController)
    /\ inflight' = MarkAborted(inflight, abortController)
    /\ poll' = PollStop(poll)
    /\ UNCHANGED <<cfg, lifecycle, data, loading, error, mountedRef,
                   retryCountRef, cleanupRegistered, cacheStore, retryTimers,
                   now, calls, nOnSuccess, nOnError, curGen, authGen,
                   lastOkAt, onlyFailed>>
    /\ UNCHANGED optVars
    /\ UNCHANGED pollHistory
    /\ UNCHANGED rejections
    /\ UNCHANGED directVars

Unmount ==
    /\ cfg.kind = "read"
    /\ lifecycle = "mounted"
    /\ lifecycle' = "unmounted"
    /\ IF cleanupRegistered
       THEN /\ mountedRef' = FALSE
            /\ abortController' = AbortedController(abortController)
            /\ inflight' = MarkAborted(inflight, abortController)
            /\ poll' = PollStop(poll)
       ELSE UNCHANGED <<mountedRef, abortController, inflight, poll>>
    /\ UNCHANGED <<cfg, data, loading, error, retryCountRef,
                   cleanupRegistered, cacheStore, retryTimers, now, calls,
                   nOnSuccess, nOnError, curGen, authGen, lastOkAt,
                   onlyFailed>>
    /\ UNCHANGED optVars
    /\ UNCHANGED pollHistory
    /\ UNCHANGED rejections
    /\ UNCHANGED directVars

-----------------------------------------------------------------------------
(* Settlement of an operation call of the read engine *)

EngineKinds == {"initial", "refetch", "poll", "retry"}

\* The cache after a call of the operation resolved with v.  The base hook
\* writes under the key computed by executeRequest, after its mountedRef
\* check; the React 19 hook writes inside createCachedFetch, which only the
\* cache-consulting calls go through.
StoreAfterSuccess(a, v) ==
    IF cfg.variant = "base"
    THEN IF mountedRef /\ cfg.cache.on
         THEN CacheSet(cacheStore, RequestKey(a.useCache), v,
                       EffectiveTtl(cfg.cache), now)
         ELSE cacheStore
    ELSE IF a.useCache
         THEN CacheSet(cacheStore, RequestKey(a.useCache), v,
                       EffectiveTtl(cfg.cache), now)
         ELSE cacheStore

SettleOk ==
    /\ cfg.kind = "read"
    /\ \E a \in inflight :
       \E v \in Results(a.gen) :
         /\ a.kind \in EngineKinds
         /\ inflight' = inflight \ {a}
         /\ rejections' = RejectionsAfter(a, FALSE)
         /\ cacheStore' = StoreAfterSuccess(a, v)
         /\ IF mountedRef
            THEN /\ data' = v
                 /\ loading' = FALSE
                 /\ retryCountRef' = 0
                 /\ nOnSuccess' = nOnSuccess + 1
            ELSE UNCHANGED <<data, loading, retryCountRef, nOnSuccess>>
         /\ lastOkAt' = IF cfg.cache.on /\ v # Null THEN now ELSE lastOkAt
    /\ onlyFailed' = FALSE
    /\ UNCHANGED <<cfg, lifecycle, error, mountedRef, abortController,
                   cleanupRegistered, poll, retryTimers, now, calls, nOnError,
                   curGen, authGen>>
    /\ UNCHANGED optVars
    /\ UNCHANGED pollHistory
    /\ UNCHANGED directVars

\* What the onSuccess callback throws when it fails
CallbackMessage == "onSuccess failed"

\* A call resolves and the onSuccess callback throws: the statements before
\* onSuccess?.(result) have run, and the exception lands in the catch block
\* of the same try.
SettleOkThrows ==
    /\ cfg.kind = "read"
    /\ \E a \in inflight :
       \E v \in Results(a.gen) :
         /\ a.kind \in EngineKinds
         /\ inflight' = inflight \ {a}
         /\ rejections' = RejectionsAfter(a, TRUE)
         /\ cacheStore' = StoreAfterSuccess(a, v)
         /\ IF ~mountedRef
            THEN UNCHANGED <<data, loading, error, retryCountRef, retryTimers,
                             nOnSuccess, nOnError>>
            ELSE /\ data' = v
                 /\ loading' = FALSE
                 /\ nOnSuccess' = nOnSuccess + 1
                 /\ IF RetryDecision(cfg.retry, 0, CallbackMessage)
                    THEN /\ retryCountRef' = 1
                         /\ retryTimers' =
                               Append(retryTimers,
                                      RetryTimer(a, CallbackMessage))
                         /\ UNCHANGED <<error, nOnError>>
                    ELSE /\ retryCountRef' = 0
                         /\ error' = CallbackMessage
                         /\ nOnError' = nOnError + 1
                         /\ retryTimers' = retryTimers
         /\ lastOkAt' = IF cfg.cache.on /\ v # Null THEN now ELSE lastOkAt
    /\ onlyFailed' = FALSE
    /\ UNCHANGED <<cfg, lifecycle, mountedRef, abortController,
                   cleanupRegistered, poll, now, calls, curGen, authGen>>
    /\ UNCHANGED optVars
    /\ UNCHANGED pollHistory
    /\ UNCHANGED directVars

SettleFail ==
    /\ cfg.kind = "read"
    /\ \E a \in inflight, m \in Errors :
         /\ a.kind \in EngineKinds
         /\ inflight' = inflight \ {a}
         /\ rejections' = RejectionsAfter(a, TRUE)
         /\ IF ~mountedRef
            THEN UNCHANGED <<error, loading, retryCountRef, retryTimers,
                             nOnError>>
            ELSE IF RetryDecision(cfg.retry, retryCountRef, m)
            THEN /\ retryCountRef' = retryCountRef + 1
                 /\ retryTimers' = Append(retryTimers, RetryTimer(a, m))
                 /\ UNCHANGED <<error, loading, nOnError>>
            ELSE /\ error' = m
                 /\ loading' = FALSE
                 /\ nOnError' = nOnError + 1
                 /\ UNCHANGED <<retryCountRef, retryTimers>>
         /\ onlyFailed' = (onlyFailed /\ m = OtherMessage)
    /\ UNCHANGED <<cfg, lifecycle, data, mountedRef, abortController,
                   cleanupRegistered, poll, cacheStore, now, calls,
                   nOnSuccess, curGen, authGen, lastOkAt>>
    /\ UNCHANGED optVars
    /\ UNCHANGED pollHistory
    /\ UNCHANGED directVars

-----------------------------------------------------------------------------
(* A direct call of the function returned by createCachedFetch for the same *)
(* operation and cache options, with the parameters that give the key the   *)
(* hook reads (another user of the shared cache)                            *)

CachedFetchCall ==
    /\ cfg.kind = "read"
    /\ cfg.cache.on
    /\ CanTrigger
    /\ LET key == RequestKey(TRUE)
           cached == CacheGet(cacheStore, key, now)
       IN  /\ cacheStore' = CacheAfterGet(cacheStore, key, now)
           /\ IF cached # Null
              THEN UNCHANGED <<inflight, calls>>
              ELSE /\ inflight' = inflight \cup
                          {Attempt(curGen + 1, "cf", TRUE, "", Null)}
                   /\ calls' = calls + 1
           /\ onlyFailed' = (onlyFailed /\ cached = Null)
    /\ curGen' = curGen + 1
    /\ UNCHANGED <<cfg, lifecycle, data, loading, error, mountedRef,
                   retryCountRef, abortController, cleanupRegistered, poll,
                   retryTimers, now, nOnSuccess, nOnError, authGen, lastOkAt>>
    /\ UNCHANGED optVars
    /\ UNCHANGED pollHistory
    /\ UNCHANGED rejections
    /\ UNCHANGED directVars

CachedFetchSettle ==
    /\ cfg.kind = "read"
    /\ \E a \in inflight :
         /\ a.kind = "cf"
         /\ inflight' = inflight \ {a}
         /\ \/ \E v \in Results(a.gen) :
                 /\ cacheStore' = CacheSet(cacheStore, RequestKey(TRUE), v,
                                      EffectiveTtl(cfg.cache), now)
                 /\ onlyFailed' = FALSE
                 /\ lastOkAt' = IF v # Null THEN now ELSE lastOkAt
            \/ \E m \in Errors :
                 /\ cacheStore' = cacheStore
                 /\ onlyFailed' = (onlyFailed /\ m = OtherMessage)
                 /\ lastOkAt' = lastOkAt
    /\ UNCHANGED <<cfg, lifecycle, data, loading, error, mountedRef,
                   retryCountRef, abortController, cleanupRegistered, poll,
                   retryTimers, now, calls, nOnSuccess, nOnError, curGen,
                   authGen>>
    /\ UNCHANGED optVars
    /\ UNCHANGED pollHistory
    /\ UNCHANGED rejections
    /\ UNCHANGED directVars

-----------------------------------------------------------------------------
(* The clock *)

Tick ==
    /\ now < MaxTime
    /\ ~TimerDue
    /\ now' = now + 1
    /\ UNCHANGED <<cfg, lifecycle, data, loading, error, mountedRef,
                   retryCountRef, abortController, cleanupRegistered, poll,
                   cacheStore, inflight, retryTimers, calls, nOnSuccess,
                   nOnError, curGen, authGen, lastOkAt, onlyFailed>>
    /\ UNCHANGED optVars
    /\ UNCHANGED pollHistory
    /\ UNCHANGED rejections
    /\ UNCHANGED directVars

-----------------------------------------------------------------------------
(* The optimistic mutation hooks: useApiOptimistic (React 18 and React 19) *)

OptConfigs ==
    [kind : {"opt"}, variant : {"r18", "r19"}, enabled : {TRUE},
     retry : RetryConfigs, cache : {CacheOff}, polling : {0},
     hasOptimistic : BOOLEAN, rollbackOnError : BOOLEAN]

\* The version-detecting useApiOptimistic on React 17/18 (useOptimistic is
\* not available)
FallbackConfigs ==
    [kind : {"opt"}, variant : {"fallback"}, enabled : {TRUE},
     retry : RetryConfigs, cache : {CacheOff}, polling : {0},
     hasOptimistic : BOOLEAN, rollbackOnError : BOOLEAN]

\* The caller's optimisticUpdate(currentData, input): the input put in front
\* of the current value, so that different arguments give different values.
OptimisticUpdate(currentData, input) == <<input>> \o currentData

RollbackData18_NoRollback(rollbackOnError, previousData, current) ==
    current

\* React 18: the rollback of the catch block.
RollbackData18(rollbackOnError, previousData, current) ==
    IF rollbackOnError /\ previousData # Undefined
    THEN previousData
    ELSE current

\* React 19: the catch block persists the optimistic value when rollback is
\* switched off.
PersistData19(rollbackOnError, pendingValue, current) ==
    IF ~rollbackOnError /\ pendingValue # Null
    THEN pendingValue
    ELSE current

MutateBody_KeepsError(gen, kind, input, cdata) ==
    /\ abortController' = [exists |-> TRUE, owner |-> gen, aborted |-> FALSE]
    /\ loading' = TRUE
    /\ error' = error
    /\ IF cfg.variant = "r18"
       THEN /\ previousDataRef' = cdata
            /\ data' = IF cfg.hasOptimistic
                       THEN OptimisticUpdate(cdata, input)
                       ELSE data
            /\ UNCHANGED pendingOptimisticValueRef
       ELSE IF cfg.variant = "fallback"
       THEN /\ data' = IF cfg.hasOptimistic
                       THEN OptimisticUpdate(cdata, input)
                       ELSE data
            /\ UNCHANGED <<previousDataRef, pendingOptimisticValueRef>>
       ELSE /\ pendingOptimisticValueRef' =
                    IF cfg.hasOptimistic
                    THEN OptimisticUpdate(cdata, input)
                    ELSE pendingOptimisticValueRef
            /\ UNCHANGED <<previousDataRef, data>>
    /\ inflight' = inflight \cup {Attempt(gen, kind, FALSE, input, cdata)}
    /\ calls' = calls + 1

\* Version-detecting hook on React 17/18: the catch block has no statement
\* in its rollback branch.
FallbackFailureData(rollbackOnError, current) ==
    current

\* mutate(input) of the render whose `data` was cdata, up to its await.
MutateBody(gen, kind, input, cdata) ==
    /\ abortController' = [exists |-> TRUE, owner |-> gen, aborted |-> FALSE]
    /\ loading' = TRUE
    /\ error' = NoError
    /\ IF cfg.variant = "r18"
       THEN /\ previousDataRef' = cdata
            /\ data' = IF cfg.hasOptimistic
                       THEN OptimisticUpdate(cdata, input)
                       ELSE data
            /\ UNCHANGED pendingOptimisticValueRef
       ELSE IF cfg.variant = "fallback"
       THEN /\ data' = IF cfg.hasOptimistic
                       THEN OptimisticUpdate(cdata, input)
                       ELSE data
            /\ UNCHANGED <<previousDataRef, pendingOptimisticValueRef>>
       ELSE /\ pendingOptimisticValueRef' =
                    IF cfg.hasOptimistic
                    THEN OptimisticUpdate(cdata, input)
                    ELSE pendingOptimisticValueRef
            /\ UNCHANGED <<previousDataRef, data>>
    /\ inflight' = inflight \cup {Attempt(gen, kind, FALSE, input, cdata)}
    /\ calls' = calls + 1

Mutate ==
    /\ cfg.kind = "opt"
    /\ lifecycle = "mounted"
    /\ CanTrigger
    /\ \E input \in Inputs :
         /\ MutateBody(curGen + 1, "mutate", input, data)
         /\ firstAttempt' = Append(firstAttempt,
                                   [cdata |-> data, input |-> input])
    /\ curGen' = curGen + 1
    /\ authGen' = curGen + 1
    /\ overlapped' = (overlapped \/ inflight # {} \/ retryTimers # <<>>)
    /\ UNCHANGED <<cfg, lifecycle, mountedRef, retryCountRef,
                   cleanupRegistered, poll, cacheStore, retryTimers, now,
                   nOnSuccess, nOnError, lastOkAt, onlyFailed>>
    /\ UNCHANGED pollHistory
    /\ UNCHANGED rejections
    /\ UNCHANGED directVars

MutateRetryFire ==
    /\ cfg.kind = "opt"
    /\ retryTimers # <<>>
    /\ retryTimers[1].due <= now
    /\ calls < MaxCalls
    /\ MutateBody(retryTimers[1].gen, "retry", retryTimers[1].input,
                  retryTimers[1].cdata)
    /\ retryTimers' = Tail(retryTimers)
    /\ UNCHANGED <<cfg, lifecycle, mountedRef, retryCountRef,
                   cleanupRegistered, poll, cacheStore, now, nOnSuccess,
                   nOnError, curGen, authGen, lastOkAt, onlyFailed,
                   overlapped>>
    /\ UNCHANGED pollHistory
    /\ UNCHANGED firstAttempt
    /\ UNCHANGED rejections
    /\ UNCHANGED directVars

MutateSettleOk_KeepsOptimistic ==
    /\ cfg.kind = "opt"
    /\ \E a \in inflight :
         /\ inflight' = inflight \ {a}
         /\ rejections' = RejectionsAfter(a, FALSE)
         /\ IF mountedRef
            THEN /\ data' = data
                 /\ pendingOptimisticValueRef' =
                        IF cfg.variant = "r19" THEN Null
                        ELSE pendingOptimisticValueRef
                 /\ loading' = FALSE
                 /\ retryCountRef' = 0
                 /\ nOnSuccess' = nOnSuccess + 1
            ELSE UNCHANGED <<data, pendingOptimisticValueRef, loading,
                             retryCountRef, nOnSuccess>>
    /\ onlyFailed' = FALSE
    /\ UNCHANGED <<cfg, lifecycle, error, mountedRef, abortController,
                   cleanupRegistered, previousDataRef, poll, cacheStore,
                   retryTimers, now, calls, nOnError, curGen, authGen,
                   lastOkAt, overlapped>>
    /\ UNCHANGED pollHistory
    /\ firstAttempt' = LiveFirstAttempts(firstAttempt, inflight', retryTimers')
    /\ UNCHANGED directVars

MutateSettleOk ==
    /\ cfg.kind = "opt"
    /\ \E a \in inflight :
         /\ inflight' = inflight \ {a}
         /\ rejections' = RejectionsAfter(a, FALSE)
         /\ IF mountedRef
            THEN /\ data' = ServerValue(a.gen)
                 /\ pendingOptimisticValueRef' =
                        IF cfg.variant = "r19" THEN Null
                        ELSE pendingOptimisticValueRef
                 /\ loading' = FALSE
                 /\ retryCountRef' = 0
                 /\ nOnSuccess' = nOnSuccess + 1
            ELSE UNCHANGED <<data, pendingOptimisticValueRef, loading,
                             retryCountRef, nOnSuccess>>
    /\ onlyFailed' = FALSE
    /\ UNCHANGED <<cfg, lifecycle, error, mountedRef, abortController,
                   cleanupRegistered, previousDataRef, poll, cacheStore,
                   retryTimers, now, calls, nOnError, curGen, authGen,
                   lastOkAt, overlapped>>
    /\ UNCHANGED pollHistory
    /\ firstAttempt' = LiveFirstAttempts(firstAttempt, inflight', retryTimers')
    /\ UNCHANGED directVars

MutateSettleFail ==
    /\ cfg.kind = "opt"
    /\ \E a \in inflight, m \in Errors :
         /\ inflight' = inflight \ {a}
         /\ rejections' = RejectionsAfter(a, TRUE)
         /\ IF ~mountedRef
            THEN UNCHANGED <<data, pendingOptimisticValueRef, error, loading,
                             retryCountRef, retryTimers, nOnError>>
            ELSE IF RetryDecision(cfg.retry, retryCountRef, m)
            THEN /\ retryCountRef' = retryCountRef + 1
                 /\ retryTimers' = Append(retryTimers, RetryTimer(a, m))
                 /\ UNCHANGED <<data, pendingOptimisticValueRef, error,
                                loading, nOnError>>
            ELSE /\ IF cfg.variant = "r18"
                    THEN /\ data' = RollbackData18(cfg.rollbackOnError,
                                                   previousDataRef, data)
                         /\ UNCHANGED pendingOptimisticValueRef
                    ELSE IF cfg.variant = "fallback"
                    THEN /\ data' = FallbackFailureData(cfg.rollbackOnError,
                                                        data)
                         /\ UNCHANGED pendingOptimisticValueRef
                    ELSE /\ data' = PersistData19(cfg.rollbackOnError,
                                        pendingOptimisticValueRef, data)
                         /\ pendingOptimisticValueRef' = Null
                 /\ error' = m
                 /\ loading' = FALSE
                 /\ nOnError' = nOnError + 1
                 /\ UNCHANGED <<retryCountRef, retryTimers>>
         /\ onlyFailed' = (onlyFailed /\ m = OtherMessage)
    /\ UNCHANGED <<cfg, lifecycle, mountedRef, abortController,
                   cleanupRegistered, previousDataRef, poll, cacheStore, now,
                   calls, nOnSuccess, curGen, authGen, lastOkAt, overlapped>>
    /\ UNCHANGED pollHistory
    /\ firstAttempt' = LiveFirstAttempts(firstAttempt, inflight', retryTimers')
    /\ UNCHANGED directVars

\* abort() of the optimistic hooks: aborts the current controller, which no
\* operation call was given.
MutateAbort ==
    /\ cfg.kind = "opt"
    /\ lifecycle = "mounted"
    /\ abortController.exists
    /\ ~abortController.aborted
    /\ abortController' = AbortedController(abortController)
    /\ inflight' = MarkAborted(inflight, abortController)
    /\ UNCHANGED <<cfg, lifecycle, data, loading, error, mountedRef,
                   retryCountRef, cleanupRegistered, poll, cacheStore,
                   retryTimers, now, calls, nOnSuccess, nOnError, curGen,
                   authGen, lastOkAt, onlyFailed>>
    /\ UNCHANGED optVars
    /\ UNCHANGED pollHistory
    /\ UNCHANGED rejections
    /\ UNCHANGED directVars

\* The value observers read as optimisticData.  React 18: data itself.
\* React 19: useOptimistic(data, (_, newState) => newState) shows the value
\* of the last setOptimisticData call whose transition is still running (a
\* transition runs until its call of mutate returns), and data otherwise.
LatestInflight ==
    CHOOSE a \in inflight : \A b \in inflight : b.seq <= a.seq

ObservedData_NoOverlay == data

ObservedData ==
    IF cfg.kind = "opt" /\ cfg.variant = "r19" /\ cfg.hasOptimistic
       /\ inflight # {}
    THEN OptimisticUpdate(LatestInflight.cdata, LatestInflight.input)
    ELSE data

-----------------------------------------------------------------------------
(* The form-action hooks: useApiAction (React 18 and React 19) *)

ActionConfigs ==
    [kind : {"action"}, variant : {"r18", "r19"}, enabled : {TRUE},
     retry : {[isNumber |-> TRUE, n |-> 0, b |-> FALSE]}, cache : {CacheOff},
     polling : {0}, hasOptimistic : {FALSE}, rollbackOnError : {TRUE}]

\* React 19: the state the action function returns.
ActionSuccessState(result) == [data |-> result, error |-> NoError]

ActionFailureState_ClearsData(previousState, message) ==
    [data |-> Null, error |-> message]

ActionFailureState(previousState, message) ==
    [data |-> previousState.data, error |-> message]

\* React 18: executeAction(input) up to its await.  React 19: the action is
\* queued by useActionState and runs when the actions before it have
\* returned; a queued action is an entry of kind "queued".
Action ==
    /\ cfg.kind = "action"
    /\ lifecycle = "mounted"
    /\ CanTrigger
    /\ curGen' = curGen + 1
    /\ authGen' = curGen + 1
    /\ loading' = TRUE
    /\ IF cfg.variant = "r18" \/ inflight = {}
       THEN /\ inflight' = inflight \cup
                   {Attempt(curGen + 1, "action", FALSE, "a", Null)}
            /\ calls' = calls + 1
       ELSE /\ inflight' = inflight \cup
                   {Attempt(curGen + 1, "queued", FALSE, "a", Null)}
            /\ calls' = calls
    /\ error' = IF cfg.variant = "r18" THEN NoError ELSE error
    /\ UNCHANGED <<cfg, lifecycle, data, mountedRef, retryCountRef,
                   abortController, cleanupRegistered, poll, cacheStore,
                   retryTimers, now, nOnSuccess, nOnError, lastOkAt,
                   onlyFailed>>
    /\ UNCHANGED optVars
    /\ UNCHANGED pollHistory
    /\ UNCHANGED rejections
    /\ UNCHANGED directVars

\* The in-flight set after the call a returned: React 19 starts the oldest
\* queued action.
AfterAction(a) ==
    LET rest == inflight \ {a}
        queued == {b \in rest : b.kind = "queued"}
    IN  IF queued = {} THEN rest
        ELSE LET b == CHOOSE q \in queued : \A r \in queued : q.gen <= r.gen
             IN  (rest \ {b}) \cup {[b EXCEPT !.kind = "action"]}

ActionSettle ==
    /\ cfg.kind = "action"
    /\ \E a \in inflight :
         /\ a.kind = "action"
         /\ inflight' = AfterAction(a)
         /\ calls' = calls + Cardinality({b \in inflight' : b.kind = "action"})
                           - Cardinality({b \in inflight \ {a} : b.kind = "action"})
         /\ loading' = IF cfg.variant = "r18" THEN FALSE ELSE inflight' # {}
         /\ \/ /\ nOnSuccess' = nOnSuccess + 1
               /\ nOnError' = nOnError
               /\ onlyFailed' = FALSE
               /\ IF cfg.variant = "r18"
                  THEN /\ data' = ServerValue(a.gen)
                       /\ error' = error
                  ELSE /\ data' = ActionSuccessState(ServerValue(a.gen)).data
                       /\ error' = ActionSuccessState(ServerValue(a.gen)).error
            \/ \E m \in Errors :
               /\ nOnError' = nOnError + 1
               /\ nOnSuccess' = nOnSuccess
               /\ onlyFailed' = (onlyFailed /\ m = OtherMessage)
               /\ IF cfg.variant = "r18"
                  THEN /\ data' = data
                       /\ error' = m
                  ELSE /\ data' = ActionFailureState(
                                      [data |-> data, error |-> error], m).data
                       /\ error' = ActionFailureState(
                                      [data |-> data, error |-> error], m).error
    /\ UNCHANGED <<cfg, lifecycle, mountedRef, retryCountRef, abortController,
                   cleanupRegistered, poll, cacheStore, retryTimers, now,
                   curGen, authGen, lastOkAt>>
    /\ UNCHANGED optVars
    /\ UNCHANGED pollHistory
    /\ UNCHANGED rejections
    /\ UNCHANGED directVars

-----------------------------------------------------------------------------
(* A PollingManager driven directly by calls of start and stop *)

PollConfigs ==
    [kind : {"poll"}, variant : {"core"}, enabled : {TRUE},
     retry : {[isNumber |-> TRUE, n |-> 0, b |-> FALSE]}, cache : {CacheOff},
     polling : {0}, hasOptimistic : {FALSE}, rollbackOnError : {TRUE}]

Callbacks == {"cb1", "cb2"}
Intervals == {PollInterval, PollInterval + 1}
MaxPollOps == MaxTriggers + 1

hookVars == <<cfg, lifecycle, data, loading, error, mountedRef, retryCountRef,
              abortController, cleanupRegistered, cacheStore, inflight,
              retryTimers, calls, nOnSuccess, nOnError, curGen, authGen,
              lastOkAt, onlyFailed>>

Start ==
    /\ cfg.kind = "poll"
    /\ pollHistory.starts + pollHistory.stops < MaxPollOps
    /\ \E cb \in Callbacks, i \in Intervals :
         /\ poll' = PollStart(poll, cb, i, now)
         /\ pollHistory' = [pollHistory EXCEPT !.starts = @ + 1,
                                               !.since = now,
                                               !.interval = i,
                                               !.callback = cb,
                                               !.count = 0]
    /\ UNCHANGED now
    /\ UNCHANGED hookVars
    /\ UNCHANGED optVars
    /\ UNCHANGED rejections
    /\ UNCHANGED directVars

Stop ==
    /\ cfg.kind = "poll"
    /\ pollHistory.starts + pollHistory.stops < MaxPollOps
    /\ poll' = PollStop(poll)
    /\ pollHistory' = [pollHistory EXCEPT !.stops = @ + 1]
    /\ UNCHANGED now
    /\ UNCHANGED hookVars
    /\ UNCHANGED optVars
    /\ UNCHANGED rejections
    /\ UNCHANGED directVars

\* What a callback of type () => void | Promise<void> can do when called
CallbackOutcomes == {"returns", "rejects", "throws"}

\* Promise.resolve(callback()).catch(console.error): a rejected promise is
\* logged; an exception thrown by callback() itself leaves the handler
\* before Promise.resolve is applied.
IntervalHandler(outcome) ==
    CASE outcome = "returns" -> "returned"
      [] outcome = "rejects" -> "logged"
      [] outcome = "throws" -> "uncaught"

\* The setInterval callback of an armed timer: the manager's callback is
\* invoked and the timer is due again one interval later.
TimerFire ==
    /\ cfg.kind = "poll"
    /\ \E t \in poll.timers, outcome \in CallbackOutcomes :
         /\ t.next = now
         /\ poll' = [poll EXCEPT !.timers =
                        (poll.timers \ {t}) \cup
                        {[t EXCEPT !.next = now + t.interval]}]
         /\ pollHistory' = [pollHistory EXCEPT
                              !.count = @ + 1,
                              !.invoked = t.callback,
                              !.handler = IntervalHandler(outcome)]
    /\ UNCHANGED now
    /\ UNCHANGED hookVars
    /\ UNCHANGED optVars
    /\ UNCHANGED rejections
    /\ UNCHANGED directVars

-----------------------------------------------------------------------------
(* The CacheManager singleton driven directly through createCache()        *)

StoreConfigs ==
    [kind : {"cache"}, variant : {"core"}, enabled : {TRUE},
     retry : {[isNumber |-> TRUE, n |-> 0, b |-> FALSE]}, cache : {CacheOff},
     polling : {0}, hasOptimistic : {FALSE}, rollbackOnError : {TRUE}]

StoreKeys == {CustomKey, generateCacheKey(OpName, EmptyParams, "")}
StoredValues == {ServerValue(1), ServerValue(2)}
Ttls == {0, Ttl}
MaxCacheOps == MaxTriggers + 2

nonCacheVars == <<cfg, lifecycle, data, loading, error, mountedRef,
                  retryCountRef, abortController, cleanupRegistered, inflight,
                  retryTimers, calls, nOnSuccess, nOnError, curGen, authGen,
                  lastOkAt, onlyFailed, poll, pollHistory, rejections,
                  request>>

\* The history after a call: `replaced` keeps what the last set overwrote.
CacheCall(op, key) ==
    [NoCacheHistory EXCEPT !.ops = cacheHistory.ops + 1, !.op = op,
                           !.key = key, !.replaced = cacheHistory.replaced]

CacheManagerSet ==
    /\ cfg.kind = "cache"
    /\ cacheHistory.ops < MaxCacheOps
    /\ \E k \in StoreKeys, v \in StoredValues, ttl \in Ttls :
         /\ cacheStore' = CacheSet(cacheStore, k, v, ttl, now)
         /\ cacheHistory' = [CacheCall("set", k) EXCEPT
                                !.value = v, !.ttl = ttl,
                                !.replaced = cacheStore[k]]
    /\ UNCHANGED <<nonCacheVars, optVars, now, keyCalls, cachedFetch>>

CacheManagerGet ==
    /\ cfg.kind = "cache"
    /\ cacheHistory.ops < MaxCacheOps
    /\ \E k \in StoreKeys :
         /\ cacheStore' = CacheAfterGet(cacheStore, k, now)
         /\ cacheHistory' = [CacheCall("get", k) EXCEPT
                                !.value = CacheGet(cacheStore, k, now)]
    /\ UNCHANGED <<nonCacheVars, optVars, now, keyCalls, cachedFetch>>

CacheManagerHas ==
    /\ cfg.kind = "cache"
    /\ cacheHistory.ops < MaxCacheOps
    /\ \E k \in StoreKeys :
         /\ cacheStore' = CacheAfterGet(cacheStore, k, now)
         /\ cacheHistory' = [CacheCall("has", k) EXCEPT
                                !.flag = CacheHas(cacheStore, k, now)]
    /\ UNCHANGED <<nonCacheVars, optVars, now, keyCalls, cachedFetch>>

CacheManagerDelete ==
    /\ cfg.kind = "cache"
    /\ cacheHistory.ops < MaxCacheOps
    /\ \E k \in StoreKeys :
         /\ cacheStore' = CacheDelete(cacheStore, k)
         /\ cacheHistory' = CacheCall("delete", k)
    /\ UNCHANGED <<nonCacheVars, optVars, now, keyCalls, cachedFetch>>

CacheManagerClear ==
    /\ cfg.kind = "cache"
    /\ cacheHistory.ops < MaxCacheOps
    /\ cacheStore' = CacheClear(cacheStore)
    /\ cacheHistory' = CacheCall("clear", "")
    /\ UNCHANGED <<nonCacheVars, optVars, now, keyCalls, cachedFetch>>

CacheManagerSize ==
    /\ cfg.kind = "cache"
    /\ cacheHistory.ops < MaxCacheOps
    /\ cacheHistory' = [CacheCall("size", "") EXCEPT
                           !.count = CacheSize(cacheStore)]
    /\ UNCHANGED <<nonCacheVars, optVars, now, cacheStore, keyCalls,
                   cachedFetch>>

-----------------------------------------------------------------------------
(* createCachedFetch, invalidateCache and clearCache called directly; the  *)
(* wrapper made by React's cache() calls through outside a server render   *)

FetchConfigs ==
    [kind : {"fetch"}, variant : {"core"}, enabled : {TRUE},
     retry : {[isNumber |-> TRUE, n |-> 0, b |-> FALSE]}, cache : {CacheOff},
     polling : {0}, hasOptimistic : {FALSE}, rollbackOnError : {TRUE}]

MaxFetchOps == MaxTriggers + 1

\* What the n-th invocation overall, made of operation f, resolves with
FetchResult(f, n) == <<f>> \o ServerValue(n)

fetchFrame == <<cfg, lifecycle, data, loading, error, mountedRef,
                retryCountRef, abortController, cleanupRegistered, inflight,
                retryTimers, nOnSuccess, nOnError, curGen, authGen, lastOkAt,
                onlyFailed, poll, pollHistory, rejections, cacheHistory,
                keyCalls, request>>

CreateCachedFetch ==
    /\ cfg.kind = "fetch"
    /\ \E f \in FetchOps, key \in {"", CustomKey}, ttl \in {Ttl} :
         /\ ~cachedFetch.fns[f].created
         /\ cachedFetch' = [cachedFetch EXCEPT
                              !.fns[f] = [created |-> TRUE, key |-> key,
                                          ttl |-> ttl]]
    /\ UNCHANGED <<fetchFrame, optVars, now, cacheStore, calls>>

StoreAfterReject_CachesError(store, key, ttl, t) ==
    CacheSet(store, key, <<"error">>, ttl, t)

\* `await apiFunction(params)` throws: the set() after it is not reached
StoreAfterReject(store, key, ttl, t) == store

IsCacheHit_ByPresence(store, key, t) ==
    store[key].present /\ ~IsExpired(store[key], t)

\* `cachedData !== null` of the function made by createCachedFetch
IsCacheHit(store, key, t) == CacheGet(store, key, t) # Null

\* cachedFetch(params) up to its await, or to its return on a cache hit
FetchCall ==
    /\ cfg.kind = "fetch"
    /\ cachedFetch.ops < MaxFetchOps
    /\ \E f \in FetchOps, ps \in FetchParams :
         /\ cachedFetch.fns[f].created
         /\ LET cacheKey == generateCacheKey(f, ps, cachedFetch.fns[f].key)
                cachedData == CacheGet(cacheStore, cacheKey, now)
            IN  /\ cacheStore' = CacheAfterGet(cacheStore, cacheKey, now)
                /\ IF IsCacheHit(cacheStore, cacheKey, now)
                   THEN /\ cachedFetch' =
                             [cachedFetch EXCEPT
                                !.ops = @ + 1,
                                !.invalidated = @ \ {cacheKey},
                                !.last = [op |-> "hit", fn |-> f,
                                          key |-> cacheKey,
                                          value |-> cachedData]]
                        /\ calls' = calls
                   ELSE /\ cachedFetch' =
                             [cachedFetch EXCEPT
                                !.ops = @ + 1,
                                !.pending = @ \cup {[fn |-> f,
                                                     key |-> cacheKey,
                                                     n |-> calls + 1]},
                                !.invoked[f] = @ + 1,
                                !.invalidated = @ \ {cacheKey},
                                !.last = [op |-> "invoke", fn |-> f,
                                          key |-> cacheKey, value |-> Null]]
                        /\ calls' = calls + 1
    /\ UNCHANGED <<fetchFrame, optVars, now>>

\* The operations that may resolve with null
NullableOps == {OpName}

\* What a call of operation f, the n-th invocation overall, can resolve with
FetchResults(f, n) ==
    {FetchResult(f, n)} \cup (IF f \in NullableOps THEN {Null} ELSE {})

\* The operation resolves: the result is stored and returned.
FetchResolve ==
    /\ cfg.kind = "fetch"
    /\ \E c \in cachedFetch.pending :
       \E result \in FetchResults(c.fn, c.n) :
             /\ cacheStore' = CacheSet(cacheStore, c.key, result,
                                      cachedFetch.fns[c.fn].ttl, now)
             /\ cachedFetch' =
                   [cachedFetch EXCEPT
                      !.pending = @ \ {c},
                      !.last = [op |-> "resolve", fn |-> c.fn, key |-> c.key,
                                value |-> result]]
    /\ UNCHANGED <<fetchFrame, optVars, now, calls>>

\* The operation rejects: the rejection leaves the async function before
\* cacheManagerInstance.set is reached.
FetchReject ==
    /\ cfg.kind = "fetch"
    /\ \E c \in cachedFetch.pending :
         /\ cacheStore' = StoreAfterReject(cacheStore, c.key,
                                           cachedFetch.fns[c.fn].ttl, now)
         /\ cachedFetch' =
               [cachedFetch EXCEPT
                  !.pending = @ \ {c},
                  !.last = [op |-> "reject", fn |-> c.fn, key |-> c.key,
                            value |-> Null]]
    /\ UNCHANGED <<fetchFrame, optVars, now, calls>>

\* invalidateCache(key), with a key one of the functions made so far uses
InvalidateCache ==
    /\ cfg.kind = "fetch"
    /\ cachedFetch.ops < MaxFetchOps
    /\ \E f \in FetchOps, ps \in FetchParams :
         LET key == generateCacheKey(f, ps, cachedFetch.fns[f].key)
         IN
         /\ cachedFetch.fns[f].created
         /\ cacheStore' = CacheDelete(cacheStore, key)
         /\ cachedFetch' =
               [cachedFetch EXCEPT
                  !.ops = @ + 1,
                  !.invalidated = @ \cup {key},
                  !.last = [op |-> "invalidate", fn |-> "", key |-> key,
                            value |-> Null]]
    /\ UNCHANGED <<fetchFrame, optVars, now, calls>>

ClearCache ==
    /\ cfg.kind = "fetch"
    /\ cachedFetch.ops < MaxFetchOps
    /\ cacheStore' = CacheClear(cacheStore)
    /\ cachedFetch' =
          [cachedFetch EXCEPT
             !.ops = @ + 1,
             !.last = [op |-> "clear", fn |-> "", key |-> "", value |-> Null]]
    /\ UNCHANGED <<fetchFrame, optVars, now, calls>>

-----------------------------------------------------------------------------
(* makeRequest                                                             *)

RequestConfigs ==
    [kind : {"request"}, variant : {"core"}, enabled : {TRUE},
     retry : {[isNumber |-> TRUE, n |-> 0, b |-> FALSE]}, cache : {CacheOff},
     polling : {0}, hasOptimistic : {FALSE}, rollbackOnError : {TRUE}]

MaxRequests == MaxTriggers
RequestTimeout == Ttl

HttpMessage == "HTTP Error: 500 Internal Server Error"
NetworkMessage == "Failed to fetch"

requestFrame == <<cfg, lifecycle, data, loading, error, mountedRef,
                  retryCountRef, abortController, cleanupRegistered, inflight,
                  retryTimers, nOnSuccess, nOnError, curGen, authGen,
                  lastOkAt, onlyFailed, poll, pollHistory, rejections,
                  cacheHistory, keyCalls, cachedFetch, cacheStore, calls>>

\* The signal given to fetch is aborted: the combined signal when a signal
\* was supplied, the timeout controller's own signal otherwise.
FetchSignalAborted(r) ==
    IF r.hasSignal THEN r.combinedAborted ELSE r.internalAborted

\* makeRequest up to `await fetch(...)`; the supplied signal may already be
\* aborted, and combineAbortSignals then aborts the combined controller.
MakeRequest ==
    /\ cfg.kind = "request"
    /\ request.phase \in {"none", "resolved", "rejected"}
    /\ request.n < MaxRequests
    /\ \E hasSignal \in BOOLEAN, aborted \in BOOLEAN :
         /\ aborted => hasSignal
         /\ request' = [NoRequest EXCEPT
                          !.n = request.n + 1,
                          !.phase = "fetching",
                          !.hasSignal = hasSignal,
                          !.externalAborted = aborted,
                          !.combinedAborted = aborted,
                          !.abortedBeforeResponse = aborted,
                          !.timerArmed = TRUE,
                          !.due = now + RequestTimeout]
    /\ UNCHANGED <<requestFrame, optVars, now>>

\* The caller aborts the supplied signal; the listener aborts the combined
\* controller.
ExternalAbort ==
    /\ cfg.kind = "request"
    /\ request.phase # "none"
    /\ request.hasSignal
    /\ ~request.externalAborted
    /\ request' = [request EXCEPT
                     !.externalAborted = TRUE,
                     !.combinedAborted = TRUE,
                     !.abortedBeforeResponse =
                         @ \/ request.phase = "fetching"]
    /\ UNCHANGED <<requestFrame, optVars, now>>

\* setTimeout(() => controller.abort(), timeout)
TimeoutFires ==
    /\ cfg.kind = "request"
    /\ request.timerArmed
    /\ request.due <= now
    /\ request' = [request EXCEPT
                     !.timerArmed = FALSE,
                     !.internalAborted = TRUE,
                     !.combinedAborted = TRUE,
                     !.abortedBeforeResponse =
                         @ \/ request.phase = "fetching"]
    /\ UNCHANGED <<requestFrame, optVars, now>>

\* fetch rejects with an AbortError: the catch block clears the timer and
\* throws Error('Request was aborted').
FetchAborts ==
    /\ cfg.kind = "request"
    /\ request.phase = "fetching"
    /\ FetchSignalAborted(request)
    /\ request' = [request EXCEPT !.phase = "rejected",
                                  !.timerArmed = FALSE,
                                  !.message = AbortMessage]
    /\ UNCHANGED <<requestFrame, optVars, now>>

\* fetch rejects with another error, which the catch block rethrows.
FetchFails ==
    /\ cfg.kind = "request"
    /\ request.phase = "fetching"
    /\ ~FetchSignalAborted(request)
    /\ request' = [request EXCEPT !.phase = "rejected",
                                  !.timerArmed = FALSE,
                                  !.message = NetworkMessage]
    /\ UNCHANGED <<requestFrame, optVars, now>>

\* fetch resolves with a response: clearTimeout, then the body is read.
FetchResponds ==
    /\ cfg.kind = "request"
    /\ request.phase = "fetching"
    /\ ~FetchSignalAborted(request)
    /\ \E ok \in BOOLEAN :
         request' = [request EXCEPT
                       !.phase = "reading",
                       !.timerArmed = FALSE,
                       !.response = IF ok THEN "ok" ELSE "error"]
    /\ UNCHANGED <<requestFrame, optVars, now>>

\* The body has been read: an ok response resolves the request, another
\* one throws the HTTP error.
BodyRead ==
    /\ cfg.kind = "request"
    /\ request.phase = "reading"
    /\ ~FetchSignalAborted(request)
    /\ request' = IF request.response = "ok"
                  THEN [request EXCEPT !.phase = "resolved"]
                  ELSE [request EXCEPT !.phase = "rejected",
                                       !.message = HttpMessage]
    /\ UNCHANGED <<requestFrame, optVars, now>>

\* The signal is aborted while the body is read: response.json() or
\* response.text() rejects with an AbortError. For an ok response the catch
\* block turns it into Error('Request was aborted'); for another response
\* `.catch(() => ({}))` swallows it and the HTTP error is thrown.
BodyAborts ==
    /\ cfg.kind = "request"
    /\ request.phase = "reading"
    /\ FetchSignalAborted(request)
    /\ request' = [request EXCEPT
                     !.phase = "rejected",
                     !.message = IF request.response = "ok"
                                 THEN AbortMessage
                                 ELSE HttpMessage]
    /\ UNCHANGED <<requestFrame, optVars, now>>

-----------------------------------------------------------------------------
(* generateCacheKey called directly                                        *)

KeyConfigs ==
    [kind : {"key"}, variant : {"core"}, enabled : {TRUE},
     retry : {[isNumber |-> TRUE, n |-> 0, b |-> FALSE]}, cache : {CacheOff},
     polling : {0}, hasOptimistic : {FALSE}, rollbackOnError : {TRUE}]

Urls == {OpName, "op2"}

\* params: undefined, {}, and objects over the properties a and b in either
\* order of insertion, a property possibly holding undefined
ParamValues ==
    {NoParams, EmptyParams}
    \cup {[defined |-> TRUE, fields |-> <<<<"a", v>>>>] :
            v \in {"1", "2", UndefinedText}}
    \cup {[defined |-> TRUE, fields |-> <<<<"a", "1">>, <<"b", "2">>>>],
          [defined |-> TRUE, fields |-> <<<<"b", "2">>, <<"a", "1">>>>]}

CustomKeys == {"", CustomKey, "other-key"}

MaxKeyCalls == MaxTriggers

GenerateCacheKey ==
    /\ cfg.kind = "key"
    /\ Len(keyCalls) < MaxKeyCalls
    /\ \E url \in Urls, params \in ParamValues, customKey \in CustomKeys :
         keyCalls' = Append(keyCalls,
                            [url |-> url, params |-> params,
                             customKey |-> customKey,
                             key |-> generateCacheKey(url, params, customKey)])
    /\ UNCHANGED <<nonCacheVars, optVars, now, cacheStore, cacheHistory,
                   cachedFetch>>

-----------------------------------------------------------------------------
(* Specifications *)

InitWith(configs) ==
    /\ cfg \in configs
    /\ lifecycle = IF cfg.kind = "read" THEN "constructed" ELSE "mounted"
    /\ data = Null
    /\ loading = FALSE
    /\ error = NoError
    /\ mountedRef = TRUE
    /\ retryCountRef = 0
    /\ abortController = NoController
    /\ cleanupRegistered = FALSE
    /\ previousDataRef = Undefined
    /\ pendingOptimisticValueRef = Null
    /\ poll = NoPolling
    /\ cacheStore = [k \in CacheKeys |-> NoEntry]
    /\ inflight = {}
    /\ retryTimers = <<>>
    /\ now = 0
    /\ calls = 0
    /\ nOnSuccess = 0
    /\ nOnError = 0
    /\ curGen = 0
    /\ authGen = 0
    /\ lastOkAt = -1
    /\ onlyFailed = TRUE
    /\ overlapped = FALSE
    /\ firstAttempt = <<>>
    /\ pollHistory = NoPollHistory
    /\ rejections = 0
    /\ cacheHistory = NoCacheHistory
    /\ keyCalls = <<>>
    /\ cachedFetch = NoCachedFetch
    /\ request = NoRequest

\* Every hook, the read engine without a cache (cache: false, or a method
\* other than GET)
Init ==
    InitWith({c \in ReadConfigs : ~c.cache.on} \cup OptConfigs \cup ActionConfigs)

Next ==
    \/ Mount
    \/ Disable
    \/ Refetch
    \/ PollTick
    \/ RetryFire
    \/ Abort
    \/ Unmount
    \/ SettleOk
    \/ SettleFail
    \/ Mutate
    \/ MutateRetryFire
    \/ MutateSettleOk
    \/ MutateSettleFail
    \/ MutateAbort
    \/ Action
    \/ ActionSettle
    \/ Tick

Spec == Init /\ [][Next]_vars

\* The read engine with the shared TTL cache
InitCache == InitWith({c \in ReadConfigs : c.cache.on /\ c.retry.isNumber})

NextCache ==
    \/ Mount
    \/ Refetch
    \/ PollTick
    \/ RetryFire
    \/ SettleOk
    \/ SettleFail
    \/ Tick
    \/ CachedFetchCall
    \/ CachedFetchSettle

SpecCache == InitCache /\ [][NextCache]_vars

\* A polling manager on its own
InitPoll == InitWith(PollConfigs)

NextPoll ==
    \/ Start
    \/ Stop
    \/ TimerFire
    \/ Tick

SpecPoll == InitPoll /\ [][NextPoll]_vars

\* The read engine without a cache, retry given as a boolean
InitRetry == InitWith(BooleanRetryReadConfigs)

NextRetry ==
    \/ Mount
    \/ Disable
    \/ Refetch
    \/ PollTick
    \/ RetryFire
    \/ Abort
    \/ Unmount
    \/ SettleOk
    \/ SettleFail
    \/ Tick

SpecRetry == InitRetry /\ [][NextRetry]_vars

\* The read engine with a numeric retry, refetched only while it is idle
BudgetConfigs ==
    {c \in ReadConfigs :
        c.retry.isNumber /\ ~c.cache.on /\ c.enabled /\ c.polling = 0}

InitBudget == InitWith(BudgetConfigs)

RefetchWhenIdle ==
    /\ inflight = {}
    /\ retryTimers = <<>>
    /\ Refetch

NextBudget ==
    \/ Mount
    \/ RefetchWhenIdle
    \/ RetryFire
    \/ SettleOk
    \/ SettleFail
    \/ Tick

SpecBudget == InitBudget /\ [][NextBudget]_vars

\* The read engine whose onSuccess callback may throw
CallbackConfigs ==
    {c \in ReadConfigs : c.retry.isNumber /\ ~c.cache.on /\ c.polling = 0}

InitCallback == InitWith(CallbackConfigs)

NextCallback ==
    \/ Mount
    \/ Refetch
    \/ RetryFire
    \/ SettleOk
    \/ SettleOkThrows
    \/ SettleFail
    \/ Tick

SpecCallback == InitCallback /\ [][NextCallback]_vars

\* A CacheManager on its own
InitStore == InitWith(StoreConfigs)

NextStore ==
    \/ CacheManagerSet
    \/ CacheManagerGet
    \/ CacheManagerHas
    \/ CacheManagerDelete
    \/ CacheManagerClear
    \/ CacheManagerSize
    \/ Tick

SpecStore == InitStore /\ [][NextStore]_vars

\* The functions of createCachedFetch on their own
InitFetch == InitWith(FetchConfigs)

NextFetch ==
    \/ CreateCachedFetch
    \/ FetchCall
    \/ FetchResolve
    \/ FetchReject
    \/ InvalidateCache
    \/ ClearCache
    \/ Tick

SpecFetch == InitFetch /\ [][NextFetch]_vars

\* makeRequest on its own
InitRequest == InitWith(RequestConfigs)

NextRequest ==
    \/ MakeRequest
    \/ ExternalAbort
    \/ TimeoutFires
    \/ FetchAborts
    \/ FetchFails
    \/ FetchResponds
    \/ BodyRead
    \/ BodyAborts
    \/ Tick

SpecRequest == InitRequest /\ [][NextRequest]_vars

\* generateCacheKey on its own
InitKey == InitWith(KeyConfigs)

NextKey == GenerateCacheKey

SpecKey == InitKey /\ [][NextKey]_vars

\* The version-detecting optimistic hook on its React 17/18 path
InitFallback == InitWith(FallbackConfigs)

NextFallback ==
    \/ Mutate
    \/ MutateRetryFire
    \/ MutateSettleOk
    \/ MutateSettleFail
    \/ MutateAbort
    \/ Tick

SpecFallback == InitFallback /\ [][NextFallback]_vars

-----------------------------------------------------------------------------
(* Properties *)

\* The call a of the current state has settled in this step.
Settled(a) == \A b \in inflight' : b.gen # a.gen

Quiet == inflight = {} /\ retryTimers = <<>>

\* C1: the settlement of a call that a later trigger of the same read engine
\* has superseded changes none of data, error, loading and calls neither
\* onSuccess nor onError.
C1_StaleSettlementDiscarded ==
    [][\A a \in inflight :
         (cfg.kind = "read" /\ a.gen < authGen /\ Settled(a))
         => UNCHANGED <<data, loading, error, nOnSuccess, nOnError>>]_vars

\* C2: after abort() was called while a call was in flight, the settlement
\* of that call changes none of data, error, loading.
C2_AbortedSettlementDiscarded ==
    [][\A a \in inflight :
         (cfg.kind = "read" /\ lifecycle = "mounted" /\ a.aborted /\ Settled(a))
         => UNCHANGED <<data, loading, error>>]_vars

\* C3: after the unmount of a read engine, no settlement changes data,
\* error, loading or calls onSuccess or onError.
C3_NoUpdateAfterTeardown ==
    [][(cfg.kind = "read" /\ lifecycle = "unmounted"
        /\ \E a \in inflight : Settled(a))
       => UNCHANGED <<data, loading, error, nOnSuccess, nOnError>>]_vars

\* C4: an engine with retry = N whose single trigger met only non-abort
\* failures has, once nothing is pending, invoked the operation N + 1 times,
\* set error, cleared loading and called onError once.
C4_RetryBound ==
    (/\ cfg.kind \in {"read", "opt"}
     /\ cfg.retry.isNumber
     /\ lifecycle = "mounted"
     /\ curGen = 1
     /\ onlyFailed
     /\ Quiet)
    => (/\ calls = cfg.retry.n + 1
        /\ error = OtherMessage
        /\ ~loading
        /\ nOnError = 1)

C4_Witness ==
    /\ cfg.kind = "read"
    /\ cfg.retry.isNumber
    /\ cfg.retry.n = MaxRetry
    /\ lifecycle = "mounted"
    /\ curGen = 1
    /\ onlyFailed
    /\ Quiet
    /\ calls = MaxRetry + 1
    /\ nOnError = 1

\* C5: the terminal failure of a mutate that no other mutate overlapped
\* leaves data at its value before the mutation when rollbackOnError is
\* true and at the optimistic value when it is false; error is set and
\* loading is false.
C5_RollbackOnFailure ==
    [][(/\ cfg.kind = "opt"
        /\ cfg.hasOptimistic
        /\ ~overlapped
        /\ nOnError' = nOnError + 1)
       => \E a \in inflight :
            /\ Settled(a)
            /\ error' # NoError
            /\ ~loading'
            /\ data' = IF cfg.rollbackOnError
                       THEN a.cdata
                       ELSE OptimisticUpdate(a.cdata, a.input)]_vars

C5_Witness ==
    /\ cfg.kind = "opt"
    /\ cfg.hasOptimistic
    /\ cfg.rollbackOnError
    /\ ~overlapped
    /\ Quiet
    /\ curGen = 2
    /\ error = OtherMessage
    /\ nOnError = 1
    /\ data = ServerValue(1)

\* C6: when a call started by refetch() of a cache-enabled read resolves with
\* a value, the cache holds that value under the key the natural triggers
\* of the engine read.
C6_RefetchWritesCache ==
    [][\A a \in inflight :
         (/\ cfg.kind = "read"
          /\ cfg.cache.on
          /\ a.kind = "refetch"
          /\ Settled(a)
          /\ nOnSuccess' = nOnSuccess + 1
          /\ data' # Null)
         => CacheGet(cacheStore', RequestKey(TRUE), now) = data']_vars

\* C7: a cache-consulting trigger (initial execution, poll tick, call of the
\* function returned by createCachedFetch) that starts no more than the TTL
\* after a fetch resolved with a value does not invoke the operation, and
\* one that starts more than the TTL after the last such fetch invokes it.
ConsultingTrigger ==
    /\ curGen' = curGen + 1
    /\ \A a \in inflight' : a.gen = curGen' => a.kind # "refetch"

C7_ServedWithinTtl ==
    [][(cfg.kind = "read" /\ cfg.cache.on /\ lastOkAt >= 0 /\ ConsultingTrigger)
       => IF now - lastOkAt <= EffectiveTtl(cfg.cache)
          THEN calls' = calls
          ELSE calls' = calls + 1]_vars

\* C8: no retry is ever scheduled for a call that failed with the abort
\* error, whatever the retry option (an integer or true): every pending
\* retry was caused by another failure.
C8_AbortIsTerminal ==
    \A i \in 1..Len(retryTimers) : retryTimers[i].cause # AbortMessage

C8_Witness ==
    /\ error = AbortMessage
    /\ ShouldRetry(cfg.retry, retryCountRef)
    /\ Quiet
    /\ calls = 1
    /\ nOnError = 1

\* C9: while a read engine is mounted, loading is true exactly when a call
\* or a scheduled retry of its latest trigger is outstanding.
AuthoritativeOutstanding ==
    \/ \E a \in inflight : a.gen = authGen
    \/ \E i \in 1..Len(retryTimers) : retryTimers[i].gen = authGen

C9_LoadingIffOutstanding ==
    (cfg.kind = "read" /\ lifecycle = "mounted")
    => (loading <=> AuthoritativeOutstanding)

\* C10: no failure of a read or action engine (a terminal failure, a failure
\* that is retried, an abort failure) changes data.
C10_DataSticky ==
    [][(/\ cfg.kind \in {"read", "action"}
        /\ \/ nOnError' # nOnError
           \/ Len(retryTimers') > Len(retryTimers))
       => data' = data]_vars

C10_Witness ==
    /\ cfg.kind \in {"read", "action"}
    /\ data # Null
    /\ error = OtherMessage
    /\ nOnError >= 1

\* C11: in the read engine and the optimistic hooks, every step that invokes
\* the operation (initial, refetch, poll tick, retry, mutate) leaves error
\* null; error becomes non-null only in a step that is a terminal failure
\* (onError is called, no retry is scheduled); a failure that schedules a
\* retry leaves error as it was.
C11_ErrorClearedAndSetOnlyTerminally ==
    [][(cfg.kind \in {"read", "opt"})
       => /\ (calls' = calls + 1 => error' = NoError)
          /\ ((error' # error /\ error' # NoError)
              => (nOnError' = nOnError + 1 /\ retryTimers' = retryTimers))
          /\ (Len(retryTimers') > Len(retryTimers) => error' = error)]_vars

C11_Witness ==
    /\ cfg.kind \in {"read", "opt"}
    /\ nOnError = 1
    /\ error = NoError
    /\ inflight # {}
    /\ curGen = 2

\* C12: once a read engine is unmounted, or its enabled option has become
\* false, its polling manager is inactive and no interval timer is armed, so
\* no poll tick can fire, whether or not a call is in flight.
C12_TeardownStopsPolling ==
    (cfg.kind = "read" /\ (lifecycle = "unmounted" \/ ~cfg.enabled))
    => (~PollIsActive(poll) /\ poll.timers = {})

C12_Witness ==
    /\ cfg.kind = "read"
    /\ cfg.polling > 0
    /\ lifecycle = "unmounted"
    /\ cleanupRegistered
    /\ inflight # {}
    /\ now >= cfg.polling
    /\ poll.timers = {}

\* C13: a call of start on a polling manager that is already active changes
\* nothing: the armed timer, its due time, its interval and its callback
\* stay as they were.
C13_StartWhileActiveIsNoOp ==
    [][(/\ cfg.kind = "poll"
        /\ PollIsActive(poll)
        /\ pollHistory'.starts = pollHistory.starts + 1)
       => poll' = poll]_vars

\* C14: every invocation of a callback by a polling manager happens while
\* the manager is active, invokes the callback of the last start, and
\* happens a whole number (at least one) of intervals after that start; an
\* active manager with no timer due has invoked the callback once per
\* elapsed interval since the last start; a stopped manager has no timer.
C14_Cadence ==
    /\ [][(cfg.kind = "poll" /\ pollHistory'.count = pollHistory.count + 1)
          => /\ PollIsActive(poll)
             /\ pollHistory'.invoked = pollHistory.callback
             /\ pollHistory'.count >= 1
             /\ now = pollHistory.since
                       + pollHistory'.count * pollHistory.interval]_vars
    /\ []((cfg.kind = "poll" /\ PollIsActive(poll) /\ ~TimerDue)
          => pollHistory.count
               = (now - pollHistory.since) \div pollHistory.interval)
    /\ []((cfg.kind = "poll" /\ ~PollIsActive(poll)) => poll.timers = {})

C14_Witness ==
    /\ cfg.kind = "poll"
    /\ pollHistory.starts = 2
    /\ pollHistory.stops = 1
    /\ pollHistory.count = 1
    /\ pollHistory.invoked = "cb2"
    /\ pollHistory.interval = PollInterval
    /\ pollHistory.since > 0
    /\ now = pollHistory.since + pollHistory.interval

\* C15: abort() of an optimistic hook while a mutation is pending ends with
\* loading false and data, onSuccess and onError untouched, and the later
\* settlement of the aborted call changes none of data, loading, error and
\* calls neither onSuccess nor onError.
C15_AbortReturnsToIdle ==
    [][(cfg.kind = "opt")
       => /\ (/\ inflight # {}
              /\ ~abortController.aborted
              /\ abortController'.aborted)
             => (~loading' /\ UNCHANGED <<data, nOnSuccess, nOnError>>)
          /\ \A a \in inflight :
               (a.aborted /\ Settled(a))
               => UNCHANGED <<data, loading, error, nOnSuccess, nOnError>>]_vars

C17_SuccessCommitsResult ==
    [][(/\ cfg.kind = "opt"
        /\ ~overlapped
        /\ nOnSuccess' # nOnSuccess)
       => \E a \in inflight :
            /\ Settled(a)
            /\ data' = ServerValue(a.gen)
            /\ ObservedData' = data'
            /\ ~loading'
            /\ error' = NoError
            /\ nOnSuccess' = nOnSuccess + 1
            /\ nOnError' = nOnError]_vars

C17_Witness ==
    /\ cfg.kind = "opt"
    /\ cfg.hasOptimistic
    /\ ~overlapped
    /\ Quiet
    /\ nOnSuccess = 1
    /\ data = ServerValue(1)
    /\ ObservedData = data
    /\ ~loading
    /\ error = NoError

\* C18: a retry of a mutate call shows observers the optimistic value of the
\* first attempt of that call, computed from the data and the input that
\* attempt started with, also when data changed in between; the React 18
\* hook keeps the same data for rollback as the first attempt did.
C18_RetryKeepsOptimisticValue ==
    [][(cfg.kind = "opt" /\ cfg.hasOptimistic)
       => \A a \in inflight' :
            (a.kind = "retry" /\ calls' = calls + 1 /\ a.seq = calls')
            => /\ ObservedData'
                    = OptimisticUpdate(firstAttempt[a.gen].cdata,
                                       firstAttempt[a.gen].input)
               /\ (cfg.variant = "r18"
                   => previousDataRef' = firstAttempt[a.gen].cdata)]_vars

C18_Witness ==
    /\ cfg.kind = "opt"
    /\ cfg.hasOptimistic
    /\ cfg.variant = "r19"
    /\ data = ServerValue(2)
    /\ \E a \in inflight :
         /\ a.kind = "retry"
         /\ a.gen = 1
         /\ ObservedData = OptimisticUpdate(Null, a.input)

\* C19: in the version-detecting hook on React 17/18 with rollbackOnError
\* true, the terminal failure of a mutate that overlaps no other mutate
\* leaves data at its value before the mutation, not at the optimistic
\* value.
C19_FallbackRollsBack ==
    [][(/\ cfg.kind = "opt"
        /\ cfg.variant = "fallback"
        /\ cfg.hasOptimistic
        /\ cfg.rollbackOnError
        /\ ~overlapped
        /\ nOnError' = nOnError + 1)
       => \E a \in inflight :
            /\ Settled(a)
            /\ data' = a.cdata
            /\ data' # OptimisticUpdate(a.cdata, a.input)]_vars

\* C20: while every outcome is a non-abort failure, a mounted engine with
\* retry = true answers each failure by scheduling another invocation
\* retryDelay later, which runs no earlier than that, and never sets error
\* nor calls onError; with retry = false the first failure sets error, clears
\* loading, calls onError once and schedules nothing, so the operation of a
\* single trigger is invoked exactly once.
C20_BooleanRetry ==
    /\ [][(/\ cfg.kind = "read"
           /\ ~cfg.retry.isNumber
           /\ mountedRef
           /\ onlyFailed /\ onlyFailed'
           /\ Cardinality(inflight') < Cardinality(inflight))
          => IF cfg.retry.b
             THEN /\ Len(retryTimers') = Len(retryTimers) + 1
                  /\ retryTimers'[Len(retryTimers')].due = now + RetryDelay
                  /\ SubSeq(retryTimers', 1, Len(retryTimers)) = retryTimers
                  /\ UNCHANGED <<error, loading, nOnError>>
             ELSE /\ error' = OtherMessage
                  /\ ~loading'
                  /\ nOnError' = nOnError + 1
                  /\ retryTimers' = <<>>]_vars
    /\ [][(/\ cfg.kind = "read"
           /\ ~cfg.retry.isNumber
           /\ Len(retryTimers') < Len(retryTimers))
          => /\ cfg.retry.b
             /\ retryTimers[1].due <= now
             /\ calls' = calls + 1
             /\ \E a \in inflight' :
                  a.seq = calls' /\ a.kind = "retry"
                  /\ a.gen = retryTimers[1].gen]_vars
    /\ []((cfg.kind = "read" /\ ~cfg.retry.isNumber /\ cfg.retry.b
           /\ onlyFailed)
          => /\ error = NoError
             /\ nOnError = 0
             /\ (lifecycle = "mounted" /\ calls > 0 => ~Quiet))
    /\ []((cfg.kind = "read" /\ ~cfg.retry.isNumber /\ ~cfg.retry.b)
          => /\ retryTimers = <<>>
             /\ retryCountRef = 0
             /\ \A a \in inflight : a.kind # "retry"
             /\ (lifecycle = "mounted" /\ curGen = 1 /\ onlyFailed /\ Quiet
                 => (calls = 1 /\ error = OtherMessage /\ ~loading
                     /\ nOnError = 1)))

\* retry = true: every invocation the bound allows has run, the last ones as
\* retries, the last failure left its retry timer, and no error is reported
C20_Witness ==
    /\ cfg.kind = "read"
    /\ ~cfg.retry.isNumber
    /\ cfg.retry.b
    /\ lifecycle = "mounted"
    /\ curGen = 1
    /\ onlyFailed
    /\ calls = MaxCalls
    /\ retryCountRef = MaxCalls
    /\ inflight = {}
    /\ retryTimers # <<>>
    /\ loading
    /\ error = NoError
    /\ nOnError = 0

C22_DisabledEngine ==
    /\ [][(cfg.kind = "read" /\ ~cfg'.enabled)
          => /\ (lifecycle = "constructed" /\ lifecycle' = "mounted"
                 => /\ calls' = calls /\ inflight' = inflight
                    /\ curGen' = curGen /\ poll' = poll /\ loading' = loading)
             /\ (curGen' = curGen + 1
                 => /\ calls' = calls + 1
                    /\ \E a \in inflight' :
                         /\ a.gen = curGen' /\ a.kind = "refetch"
                         /\ inflight' \ {a} \subseteq inflight)]_vars
    /\ []((cfg.kind = "read" /\ ~cfg.enabled)
          => /\ ~PollIsActive(poll) /\ poll.timers = {}
             /\ (lifecycle = "mounted" => mountedRef)
             /\ (curGen = 0
                 => calls = 0 /\ inflight = {} /\ ~loading /\ data = Null)
             /\ (lifecycle = "mounted" /\ curGen = 1 /\ Quiet
                 /\ nOnSuccess = 1 /\ nOnError = 0
                 => data \in Results(1) /\ ~loading /\ error = NoError)
             /\ (lifecycle = "mounted" /\ curGen = 1 /\ Quiet /\ onlyFailed
                 /\ cfg.retry.isNumber
                 => /\ calls = cfg.retry.n + 1 /\ error = OtherMessage
                    /\ ~loading /\ nOnError = 1 /\ data = Null))

\* an engine constructed disabled (its controller was never aborted by an
\* effect cleanup) whose single refetch() resolved
C22_Witness ==
    /\ cfg.kind = "read"
    /\ ~cfg.enabled
    /\ cfg.polling > 0
    /\ lifecycle = "mounted"
    /\ curGen = 1
    /\ calls = 1
    /\ Quiet
    /\ abortController.exists /\ ~abortController.aborted
    /\ nOnSuccess = 1
    /\ data = ServerValue(1)
    /\ ~loading
    /\ now >= cfg.polling

\* C23: get(key) returns the stored value and leaves the store alone when
\* the entry's age is at most its ttl; when the age exceeds the ttl, or there
\* is no entry, it returns null and the key has no entry afterwards. The
\* passing of time removes nothing, an entry disappears only in a get, has,
\* delete or clear, and size() counts expired entries too.
C23_GetExpiresLazily ==
    [][(cfg.kind = "cache")
       => /\ (cacheHistory'.ops = cacheHistory.ops + 1
               /\ cacheHistory'.op = "get")
              => LET k == cacheHistory'.key
                     e == cacheStore[k]
                 IN  IF e.present /\ now - e.timestamp <= e.ttl
                     THEN /\ cacheHistory'.value = e.data
                          /\ cacheStore' = cacheStore
                     ELSE /\ cacheHistory'.value = Null
                          /\ ~cacheStore'[k].present
                          /\ \A j \in CacheKeys \ {k} :
                               cacheStore'[j] = cacheStore[j]
          /\ (now' # now => cacheStore' = cacheStore)
          /\ (\A k \in CacheKeys :
                (cacheStore[k].present /\ ~cacheStore'[k].present)
                => \/ cacheHistory'.op \in {"get", "has", "delete"}
                      /\ cacheHistory'.key = k
                   \/ cacheHistory'.op = "clear")
          /\ (cacheHistory'.ops = cacheHistory.ops + 1
               /\ cacheHistory'.op = "size")
              => cacheHistory'.count
                   = Cardinality({k \in CacheKeys : cacheStore[k].present})]_vars

\* size() counted an entry older than its ttl that no get has read
C23_Witness ==
    /\ cfg.kind = "cache"
    /\ cacheHistory.op = "size"
    /\ cacheHistory.ops = 2
    /\ cacheHistory.count = 1
    /\ \E k \in StoreKeys :
         /\ cacheStore[k].present
         /\ cacheStore[k].ttl = Ttl
         /\ now - cacheStore[k].timestamp > cacheStore[k].ttl

\* C24: set(key, value, ttl) makes the entry of the key exactly (value, now,
\* ttl) whatever was stored and touches no other key; a get of the key that
\* directly follows a set which replaced an entry with a shorter ttl, at an
\* age above that shorter ttl and at most the new one, returns the new value.
C24_SetOverwrites ==
    [][(cfg.kind = "cache" /\ cacheHistory'.ops = cacheHistory.ops + 1)
       => /\ (cacheHistory'.op = "set")
              => LET k == cacheHistory'.key
                 IN  /\ cacheStore'[k] = [present |-> TRUE,
                                          data |-> cacheHistory'.value,
                                          timestamp |-> now,
                                          ttl |-> cacheHistory'.ttl]
                     /\ \A j \in CacheKeys \ {k} :
                          cacheStore'[j] = cacheStore[j]
          /\ (/\ cacheHistory'.op = "get"
              /\ cacheHistory.op = "set"
              /\ cacheHistory'.key = cacheHistory.key
              /\ cacheHistory.replaced.present
              /\ cacheHistory.replaced.ttl < cacheHistory.ttl
              /\ now - cacheStore[cacheHistory.key].timestamp
                    > cacheHistory.replaced.ttl
              /\ now - cacheStore[cacheHistory.key].timestamp
                    <= cacheHistory.ttl)
              => cacheHistory'.value = cacheHistory.value]_vars

\* set(k, v1, 0); set(k, v2, Ttl); a get at age Ttl returned v2
C24_Witness ==
    /\ cfg.kind = "cache"
    /\ cacheHistory.op = "get"
    /\ cacheHistory.ops = 3
    /\ cacheHistory.replaced.present
    /\ cacheHistory.replaced.ttl = 0
    /\ cacheHistory.replaced.data = ServerValue(1)
    /\ cacheStore[cacheHistory.key].present
    /\ cacheStore[cacheHistory.key].ttl = Ttl
    /\ now - cacheStore[cacheHistory.key].timestamp = Ttl
    /\ cacheHistory.value = ServerValue(2)

\* Two params values are structurally identical when both are undefined or
\* both are objects with the same properties holding the same values.
SameParams(p, q) ==
    /\ p.defined = q.defined
    /\ Len(p.fields) = Len(q.fields)
    /\ {p.fields[i] : i \in DOMAIN p.fields}
         = {q.fields[i] : i \in DOMAIN q.fields}

\* C25: without an override key, two calls of generateCacheKey with the same
\* operation id and structurally identical params return the same key, and
\* two calls that differ in the operation id or in params return different
\* keys.
C25_KeyDeterministicAndInjective ==
    \A i, j \in DOMAIN keyCalls :
        (keyCalls[i].customKey = "" /\ keyCalls[j].customKey = "")
        => (keyCalls[i].key = keyCalls[j].key
            <=> /\ keyCalls[i].url = keyCalls[j].url
                /\ SameParams(keyCalls[i].params, keyCalls[j].params))

\* C26: a call of a function made with an override key uses exactly that key
\* whatever its operation and its params are; when the slot of that key holds
\* a value that is not null and not older than its ttl, the call returns
\* that value, stored by whichever operation, and invokes nothing.
C26_OverrideKeyAliases ==
    [][(/\ cfg.kind = "fetch"
        /\ cachedFetch'.ops = cachedFetch.ops + 1
        /\ cachedFetch'.last.op \in {"hit", "invoke"}
        /\ cachedFetch.fns[cachedFetch'.last.fn].key # "")
       => LET k == cachedFetch.fns[cachedFetch'.last.fn].key
              e == cacheStore[k]
          IN  /\ cachedFetch'.last.key = k
              /\ (e.present /\ now - e.timestamp <= e.ttl /\ e.data # Null)
                  => /\ cachedFetch'.last.op = "hit"
                     /\ cachedFetch'.last.value = e.data
                     /\ cachedFetch'.invoked = cachedFetch.invoked
                     /\ cachedFetch'.pending = cachedFetch.pending
                     /\ calls' = calls]_vars

\* two operations made with the same override key: the second, never
\* invoked, returned the result of the first
C26_Witness ==
    /\ cfg.kind = "fetch"
    /\ cachedFetch.fns[OpName].key = CustomKey
    /\ cachedFetch.fns["op2"].key = CustomKey
    /\ cachedFetch.last.op = "hit"
    /\ cachedFetch.last.fn = "op2"
    /\ cachedFetch.last.key = CustomKey
    /\ cachedFetch.last.value = FetchResult(OpName, 1)
    /\ cachedFetch.invoked["op2"] = 0
    /\ cachedFetch.invoked[OpName] = 1
    /\ now > 0

\* C29: invalidateCache(key) removes the entry of that key and leaves every
\* other entry as it was (value, creation time, ttl); the first call after it
\* that uses the key invokes its operation, while a call whose key has an
\* entry within its ttl is served from it; clearCache() leaves no entry, so
\* the size of the cache is 0.
C29_InvalidateRemovesOneKey ==
    [][(cfg.kind = "fetch" /\ cachedFetch'.ops = cachedFetch.ops + 1)
       => LET last == cachedFetch'.last
              e == cacheStore[last.key]
          IN  /\ last.op = "invalidate"
                  => /\ ~cacheStore'[last.key].present
                     /\ \A k \in DOMAIN cacheStore \ {last.key} :
                           cacheStore'[k] = cacheStore[k]
              /\ last.op = "clear"
                  => /\ \A k \in DOMAIN cacheStore : ~cacheStore'[k].present
                     /\ CacheSize(cacheStore') = 0
              /\ (last.op \in {"hit", "invoke"}
                  /\ last.key \in cachedFetch.invalidated)
                  => /\ last.op = "invoke"
                     /\ cachedFetch'.invoked[last.fn]
                           = cachedFetch.invoked[last.fn] + 1
              /\ (last.op \in {"hit", "invoke"}
                  /\ last.key \notin cachedFetch.invalidated
                  /\ e.present /\ now - e.timestamp <= e.ttl
                  /\ e.data # Null)
                  => /\ last.op = "hit"
                     /\ last.value = e.data
                     /\ cachedFetch'.invoked = cachedFetch.invoked]_vars

\* C30: a rejection of the wrapped operation leaves the cache as it was (no
\* entry created, none refreshed); every entry holds the result of a call
\* that resolved; and a call that finds no entry within its ttl under its
\* key, as the call after a failure does, invokes the operation.
C30_FailureNotCached ==
    /\ [](cfg.kind = "fetch"
          => \A k \in DOMAIN cacheStore :
                cacheStore[k].present
                => \/ cacheStore[k].data = Null
                   \/ \E f \in FetchOps, n \in 1..calls :
                         cacheStore[k].data = FetchResult(f, n))
    /\ [][(cfg.kind = "fetch" /\ cachedFetch'.last.op = "reject"
           /\ cachedFetch'.pending # cachedFetch.pending)
          => cacheStore' = cacheStore]_vars
    /\ [][(cfg.kind = "fetch" /\ cachedFetch'.ops = cachedFetch.ops + 1
           /\ cachedFetch'.last.op \in {"hit", "invoke"})
          => LET last == cachedFetch'.last
                 e == cacheStore[last.key]
             IN  /\ last.op = "hit"
                     => /\ e.present /\ now - e.timestamp <= e.ttl
                        /\ last.value = e.data
                 /\ ~(e.present /\ now - e.timestamp <= e.ttl)
                     => /\ last.op = "invoke"
                        /\ cachedFetch'.invoked[last.fn]
                              = cachedFetch.invoked[last.fn] + 1
                        /\ calls' = calls + 1]_vars

\* the first call was rejected and stored nothing, the second call of the
\* same function invoked the operation again
C30_Witness ==
    /\ cfg.kind = "fetch"
    /\ cachedFetch.ops = 2
    /\ now = 0
    /\ cachedFetch.last.op = "invoke"
    /\ cachedFetch.last.fn = OpName
    /\ cachedFetch.invoked[OpName] = 2
    /\ calls = 2
    /\ cachedFetch.pending
          = {[fn |-> OpName, key |-> cachedFetch.last.key, n |-> 2]}
    /\ \A k \in DOMAIN cacheStore : ~cacheStore[k].present

\* C27: a request whose timeout or supplied signal fired before fetch
\* completed is rejected with 'Request was aborted'; a request whose fetch
\* completed first settles as its response says - resolved for an ok
\* response, rejected with the HTTP error otherwise - whatever fires later.
C27_FirstToFireWins ==
    /\ (request.phase \in {"resolved", "rejected"}
        /\ request.abortedBeforeResponse)
       => (request.phase = "rejected" /\ request.message = AbortMessage)
    /\ (request.phase \in {"resolved", "rejected"} /\ request.response = "ok")
       => request.phase = "resolved"
    /\ (request.phase \in {"resolved", "rejected"}
        /\ request.response = "error")
       => (request.phase = "rejected" /\ request.message = HttpMessage)

\* C28: no run of the interval handler lets a failure of the callback
\* escape, whether a rejected promise or a thrown exception; every run
\* leaves the manager active with its timer due one interval later.
C28_CallbackFailureSwallowed ==
    /\ []((cfg.kind = "poll") => pollHistory.handler # "uncaught")
    /\ [][(cfg.kind = "poll" /\ pollHistory'.count = pollHistory.count + 1)
          => /\ PollIsActive(poll')
             /\ \E t \in poll'.timers :
                  t.next = now + pollHistory.interval]_vars

\* C31: whatever start and stop calls a polling manager has received, it has
\* at most one armed timer, isActive() is true exactly when a timer is armed
\* (and then it is the one intervalId names), and a call of stop on an
\* inactive manager changes nothing and leaves isActive() false.
C31_OneTimerStopSafe ==
    /\ [](cfg.kind = "poll"
          => /\ Cardinality(poll.timers) <= 1
             /\ PollIsActive(poll) <=> poll.timers # {}
             /\ \A t \in poll.timers : t.id = poll.intervalId)
    /\ [][(cfg.kind = "poll" /\ pollHistory'.stops = pollHistory.stops + 1)
          => /\ ~PollIsActive(poll')
             /\ poll'.timers = {}
             /\ ~PollIsActive(poll) => poll' = poll]_vars

\* a manager stopped twice in a row after a start
C31_Witness ==
    /\ cfg.kind = "poll"
    /\ pollHistory.starts = 1
    /\ pollHistory.stops = 2
    /\ pollHistory.count = 1
    /\ ~PollIsActive(poll)
    /\ poll.timers = {}

\* C32: in a read engine with retry = N whose triggers are issued one after
\* the other, each after the one before it has ended, and whose calls all
\* fail with a non-abort error, every trigger invokes the operation N + 1
\* times before its failure is terminal: once g triggers have ended, the
\* operation was invoked g * (N + 1) times and onError was called g times.
C32_BudgetPerTrigger ==
    (/\ cfg.kind = "read"
     /\ cfg.retry.isNumber
     /\ lifecycle = "mounted"
     /\ onlyFailed
     /\ Quiet)
    => (/\ calls = curGen * (cfg.retry.n + 1)
        /\ nOnError = curGen)

\* C33: once abort() was called or the engine was torn down, the operation
\* is invoked again only by a new trigger: no invocation that answers an
\* earlier trigger (a retry) happens while the engine is unmounted or its
\* current controller is the aborted one.
C33_NoRetryAfterAbort ==
    [][(/\ cfg.kind \in {"read", "opt"}
        /\ calls' = calls + 1
        /\ curGen' = curGen)
       => /\ lifecycle # "unmounted"
          /\ ~(abortController.exists /\ abortController.aborted)]_vars

\* C34: every entry in the TTL cache of a cache-enabled read engine is
\* stored under the key its cache-consulting triggers read,
\* generateCacheKey(operation, params, override); no entry is stored under
\* another key, such as the empty string.
C34_EntriesUnderNaturalKey ==
    (cfg.kind = "read" /\ cfg.cache.on)
    => \A k \in DOMAIN cacheStore :
          cacheStore[k].present => k = RequestKey(TRUE)

\* C35: the settlement of an operation call invokes at most one of onSuccess
\* and onError, and a call that resolved (onSuccess was invoked for it)
\* schedules no retry and sets no error, also when onSuccess throws.
C35_SuccessIsFinal ==
    [][(cfg.kind = "read" /\ \E a \in inflight : Settled(a))
       => /\ nOnSuccess' + nOnError' <= nOnSuccess + nOnError + 1
          /\ nOnSuccess' = nOnSuccess + 1
              => /\ retryTimers' = retryTimers
                 /\ error' = NoError]_vars

\* C36: in the React 18 optimistic hook with rollbackOnError = true, once
\* every mutate call, overlapping or not, has failed terminally and no call
\* ever succeeded, data is the value it had before the first of them (the
\* initial null): no optimistic value of any mutation is left as data.
C36_OverlappingRollback ==
    (/\ cfg.kind = "opt"
     /\ cfg.variant = "r18"
     /\ cfg.rollbackOnError
     /\ onlyFailed
     /\ Quiet)
    => data = Null

\* C37: in the React 19 optimistic hook with rollbackOnError = false, the
\* terminal failure of a mutate call, overlapped by another call or not,
\* leaves as data the optimistic value of that very call.
C37_OwnValuePromoted ==
    [][(/\ cfg.kind = "opt"
        /\ cfg.variant = "r19"
        /\ cfg.hasOptimistic
        /\ ~cfg.rollbackOnError
        /\ nOnError' = nOnError + 1)
       => \E a \in inflight :
            /\ Settled(a)
            /\ data' = OptimisticUpdate(a.cdata, a.input)]_vars

C39_NullNeverServed ==
    /\ [](cfg.kind = "fetch"
          => /\ \A k \in DOMAIN cacheStore :
                   (~cacheStore[k].present \/ cacheStore[k].data = Null)
                   => /\ CacheGet(cacheStore, k, now) = Null
                      /\ ~CacheHas(cacheStore, k, now)
             /\ cachedFetch.last.op = "hit"
                   => cachedFetch.last.value # Null)
    /\ [][(/\ cfg.kind = "fetch"
           /\ cachedFetch'.ops = cachedFetch.ops + 1
           /\ cachedFetch'.last.op \in {"hit", "invoke"}
           /\ cacheStore[cachedFetch'.last.key].present
           /\ cacheStore[cachedFetch'.last.key].data = Null)
          => /\ cachedFetch'.last.op = "invoke"
             /\ cachedFetch'.invoked[cachedFetch'.last.fn]
                   = cachedFetch.invoked[cachedFetch'.last.fn] + 1
             /\ calls' = calls + 1]_vars

\* the first call resolved with null, which was stored; the second call of
\* the same function, made within the ttl, has invoked the operation again
C39_Witness ==
    /\ cfg.kind = "fetch"
    /\ cachedFetch.ops = 2
    /\ now = 0
    /\ cachedFetch.last.op = "invoke"
    /\ cachedFetch.last.fn = OpName
    /\ cachedFetch.invoked[OpName] = 2
    /\ cachedFetch.pending
          = {[fn |-> OpName, key |-> cachedFetch.last.key, n |-> 2]}
    /\ cacheStore[cachedFetch.last.key].present
    /\ cacheStore[cachedFetch.last.key].data = Null
    /\ cacheStore[cachedFetch.last.key].ttl = Ttl

====
